---- MODULE Spec2Model ----
(***************************************************************************)
(* Model of the data-management core of data_process: the streaming ingest *)
(* pipeline of FileUpload.tsx (processRow, handleFileChange and its        *)
(* Papa.parse callbacks) on top of the IndexedDB row store of              *)
(* utils/indexedDB.ts (clearDB, batchWriteData, batchReadData).            *)
(*                                                                         *)
(* Strings are sequences of one-character strings.  A JavaScript number is *)
(* the pair [m, e] standing for m * 10^e, with m free of trailing zeros.   *)
(***************************************************************************)
EXTENDS Integers, Sequences, FiniteSets, Bags, TLC

(***************************************************************************)
(* Bounds of the model.                                                    *)
(***************************************************************************)
\* imports the user starts in one session
MaxImports == 2
\* records the parser emits for one file
MaxRecords == 5
\* records the parser emits for the file of a later import
MaxLaterRecords == 1
\* put requests the store rejects in one session
MaxPutErrors == 1
\* stream errors the file reader raises in one session
MaxParseErrors == 1
\* records per file in the specification of progress (SpecLive)
MaxLiveRecords == 4
\* records per file in the specification of reads during imports (SpecScan)
MaxScanRecords == 3
\* rows per IndexedDB transaction (5000 in FileUpload.tsx:86), scaled down
BATCH_SIZE == 2
\* records per progress report (10000 in FileUpload.tsx:87), scaled down
CHUNK_SIZE == 2
\* row estimate of the progress formula (1000000 in FileUpload.tsx:135), scaled down
ESTIMATED_ROWS == 4
\* distinct non-empty ids in the files of the ingest specification
NumIds == 2
\* rows of the largest store batchReadData is run on
MaxReadRows == 3
\* largest offset and limit passed to batchReadData
MaxOffset == 4
MaxLimit == 4
\* longest raw cell handed to processRow in the cell specification
MaxCellLen == 3
\* columns of a record besides id in the label specification
MaxLabelCells == 2
\* length and largest value of the lists handed to the statistics
MaxStatLen == 4
MaxStatValue == 3
\* length of the generated texts handed to matchesWord
MaxTextLen == 3
\* rows of the store and length of the condition list in the filter specification
MaxFilterRows == 2
MaxConditions == 2
\* the transactions of filterData that have not completed, at once
MaxTx == 2
\* length of the condition list of DataResampling
MaxResampleConditions == 2
\* the values Date.now() returns while the conditions are added
MaxClock == 2
\* rows of the store in the sampling specifications
MaxSampleRows == 3
\* the sampling caps (100000 in the source)
SampleCap == 2
SAMPLE_THRESHOLD == 2
SAMPLE_SIZE == 2

(***************************************************************************)
(* Strings and numbers.                                                    *)
(***************************************************************************)
\* A text is a sequence of characters, one per UTF-16 code unit.  A
\* character is a string: the character itself for the printable ASCII
\* characters but the grave accent and for "\t", "\n", "\r", "\f", and the
\* name "U+XXXX" (four upper-case hexadecimal digits) for every other code
\* unit.  Column names and file names are plain strings of ASCII
\* characters.
Hex == {"0", "1", "2", "3", "4", "5", "6", "7", "8", "9", "A", "B", "C", "D",
        "E", "F"}

\* the names U+00hl with h among hs
Named(hs) == {"U+00" \o h \o l : h \in hs, l \in Hex}

NBSP == "U+00A0"

VT == "U+000B"

\* WhiteSpace and LineTerminator: what /\s/, trim(), Number() and parseFloat
\* skip
WhiteSpace ==
  {" ", "\t", "\n", "\r", "\f",
   "U+000B", "U+00A0", "U+1680", "U+2000", "U+2001", "U+2002", "U+2003",
   "U+2004", "U+2005", "U+2006", "U+2007", "U+2008", "U+2009", "U+200A",
   "U+2028", "U+2029", "U+202F", "U+205F", "U+3000", "U+FEFF"}

IsWs(c) == c \in WhiteSpace

IsDigit(c) == c \in {"0", "1", "2", "3", "4", "5", "6", "7", "8", "9"}

DigitVal(c) ==
  CASE c = "0" -> 0 [] c = "1" -> 1 [] c = "2" -> 2 [] c = "3" -> 3
    [] c = "4" -> 4 [] c = "5" -> 5 [] c = "6" -> 6 [] c = "7" -> 7
    [] c = "8" -> 8 [] c = "9" -> 9

DigitChar(n) ==
  CASE n = 0 -> "0" [] n = 1 -> "1" [] n = 2 -> "2" [] n = 3 -> "3"
    [] n = 4 -> "4" [] n = 5 -> "5" [] n = 6 -> "6" [] n = 7 -> "7"
    [] n = 8 -> "8" [] n = 9 -> "9"

\* index of the first character at or after i that is not white space
RECURSIVE SkipWs(_, _)
SkipWs(s, i) == IF i <= Len(s) /\ IsWs(s[i]) THEN SkipWs(s, i + 1) ELSE i

\* index of the last character at or before i that is not white space
RECURSIVE SkipWsBack(_, _)
SkipWsBack(s, i) == IF i >= 1 /\ IsWs(s[i]) THEN SkipWsBack(s, i - 1) ELSE i

\* String.prototype.trim
Trim(s) == SubSeq(s, SkipWs(s, 1), SkipWsBack(s, Len(s)))

\* length of the run of decimal digits starting at i
RECURSIVE DigitsRun(_, _)
DigitsRun(s, i) ==
  IF i <= Len(s) /\ IsDigit(s[i]) THEN 1 + DigitsRun(s, i + 1) ELSE 0

\* the n digits starting at i read as a decimal numeral
RECURSIVE DigitsValue(_, _, _)
DigitsValue(s, i, n) ==
  IF n = 0 THEN 0 ELSE DigitsValue(s, i, n - 1) * 10 + DigitVal(s[i + n - 1])

RECURSIVE Pow10(_)
Pow10(n) == IF n = 0 THEN 1 ELSE 10 * Pow10(n - 1)

\* m * 10^e with the trailing zeros of m moved into e
RECURSIVE Normalize(_, _)
Normalize(m, e) ==
  IF m = 0 THEN [m |-> 0, e |-> 0]
  ELSE IF m % 10 = 0 THEN Normalize(m \div 10, e + 1)
  ELSE [m |-> m, e |-> e]

Infinity == <<"I", "n", "f", "i", "n", "i", "t", "y">>

(***************************************************************************)
(* parseFloat: skips leading white space and reads the longest prefix that *)
(* is a StrDecimalLiteral.  ParsePrefix also tells where that prefix ends  *)
(* (end is the index of the first character that was not read).  The       *)
(* stages below read the sign, the integer digits, the fraction and the    *)
(* exponent in turn: i0 is the first character after the white space, i1   *)
(* the first after the sign, i3 the first after the mantissa, i4 the first *)
(* exponent digit.                                                         *)
(***************************************************************************)
NotANumber(i0) == [kind |-> "NaN", m |-> 0, e |-> 0, end |-> i0]

FiniteNumber(num, end) == [kind |-> "finite", m |-> num.m, e |-> num.e, end |-> end]

Signed(neg, n) == IF neg THEN 0 - n ELSE n

\* number of decimal digits of n > 0
RECURSIVE NumDigits(_)
NumDigits(n) == IF n < 10 THEN 1 ELSE 1 + NumDigits(n \div 10)

Abs(n) == IF n < 0 THEN 0 - n ELSE n

(***************************************************************************)
(* The range of a double.  A literal of at least 2^1024 - 2^970 =          *)
(* 1.797693134862315807...e308 rounds to Infinity, one of at most 2^-1075  *)
(* = 2.470328229206232720...e-324 rounds to zero.  A mantissa of the model *)
(* has at most ten digits, so comparing its leading digits decides.        *)
(***************************************************************************)
MaxDoubleExp == 308
MaxDoubleLead == 1797693134
MinDoubleExp == 324
MinDoubleLead == 247032822
MinNormalExp == 308
MinNormalLead == 222507385

\* m * 10^e (m without trailing zeros) is beyond the largest double
Overflows(m, e) ==
  LET d == NumDigits(Abs(m))
      mag == e + d - 1
  IN  m # 0 /\ (\/ mag > MaxDoubleExp
                \/ mag = MaxDoubleExp
                     /\ Abs(m) > MaxDoubleLead \div Pow10(10 - d))

\* m * 10^e (m without trailing zeros) rounds to zero
Underflows(m, e) ==
  LET d == NumDigits(Abs(m))
      mag == e + d - 1
  IN  m # 0 /\ (\/ mag < 0 - MinDoubleExp
                \/ mag = 0 - MinDoubleExp
                     /\ (d = 10 \/ Abs(m) <= MinDoubleLead \div Pow10(9 - d)))

InfiniteNumber(neg, end) ==
  [kind |-> IF neg THEN "-Infinity" ELSE "Infinity", m |-> 0, e |-> 0, end |-> end]

\* m * 10^e (m without trailing zeros) is below the smallest normal double,
\* 2^-1022 = 2.2250738585...e-308: the doubles there are the multiples of
\* 2^-1074 and a literal is rounded to one of them
Subnormal(m, e) ==
  LET d == NumDigits(Abs(m))
      mag == e + d - 1
  IN  m # 0 /\ (\/ mag < 0 - MinNormalExp
                \/ mag = 0 - MinNormalExp
                     /\ (d = 10 \/ Abs(m) * Pow10(9 - d) <= MinNormalLead))

\* the double nearest to the decimal num.m * 10^num.e; a normal double is
\* written as that decimal.  The rounding of a literal to a subnormal
\* double other than zero is left undefined
RoundToDouble(num, neg, end) ==
  IF Overflows(num.m, num.e) THEN InfiniteNumber(neg, end)
  ELSE IF Underflows(num.m, num.e) THEN FiniteNumber([m |-> 0, e |-> 0], end)
  ELSE CASE ~Subnormal(num.m, num.e) -> FiniteNumber(num, end)

MakeNumber(s, i1, neg, intLen, fracLen, exp, end) ==
  RoundToDouble(
    Normalize(Signed(neg, DigitsValue(s, i1, intLen) * Pow10(fracLen)
                            + DigitsValue(s, i1 + intLen + 1, fracLen)),
              exp - fracLen),
    neg, end)

ParseExpValue(s, i1, neg, intLen, fracLen, i3, i4, eNeg, expLen) ==
  IF expLen = 0
  THEN MakeNumber(s, i1, neg, intLen, fracLen, 0, i3)
  ELSE MakeNumber(s, i1, neg, intLen, fracLen,
                  Signed(eNeg, DigitsValue(s, i4, expLen)), i4 + expLen)

ParseExpDigits(s, i1, neg, intLen, fracLen, i3, i4, eNeg) ==
  ParseExpValue(s, i1, neg, intLen, fracLen, i3, i4, eNeg, DigitsRun(s, i4))

ParseExponent(s, i0, i1, neg, intLen, fracLen, i3) ==
  IF intLen + fracLen = 0 THEN NotANumber(i0)
  ELSE IF i3 <= Len(s) /\ s[i3] \in {"e", "E"}
    THEN IF i3 + 1 <= Len(s) /\ s[i3 + 1] \in {"+", "-"}
           THEN ParseExpDigits(s, i1, neg, intLen, fracLen, i3, i3 + 2,
                               s[i3 + 1] = "-")
           ELSE ParseExpDigits(s, i1, neg, intLen, fracLen, i3, i3 + 1, FALSE)
  ELSE MakeNumber(s, i1, neg, intLen, fracLen, 0, i3)

ParseFraction(s, i0, i1, neg, intLen, fracLen) ==
  ParseExponent(s, i0, i1, neg, intLen, fracLen, i1 + intLen + 1 + fracLen)

ParseMantissa(s, i0, i1, neg, intLen) ==
  IF i1 + intLen <= Len(s) /\ s[i1 + intLen] = "."
  THEN ParseFraction(s, i0, i1, neg, intLen, DigitsRun(s, i1 + intLen + 1))
  ELSE ParseExponent(s, i0, i1, neg, intLen, 0, i1 + intLen)

ParseUnsigned(s, i0, i1, neg) ==
  IF i1 + 7 <= Len(s) /\ SubSeq(s, i1, i1 + 7) = Infinity
  THEN InfiniteNumber(neg, i1 + 8)
  ELSE ParseMantissa(s, i0, i1, neg, DigitsRun(s, i1))

ParseSigned(s, i0) ==
  IF i0 <= Len(s) /\ s[i0] \in {"+", "-"}
  THEN ParseUnsigned(s, i0, i0 + 1, s[i0] = "-")
  ELSE ParseUnsigned(s, i0, i0, FALSE)

ParsePrefix(s) == ParseSigned(s, SkipWs(s, 1))

NumberOf(p) == [kind |-> p.kind, m |-> p.m, e |-> p.e]

parseFloat(s) == NumberOf(ParsePrefix(s))

\* !isNaN(numValue) && isFinite(numValue)
IsFiniteNumber(n) == n.kind # "NaN" /\ n.kind = "finite"

Numeric(m, e) == [tag |-> "Numeric", m |-> m, e |-> e]

Text(s) == [tag |-> "Text", s |-> s]

(***************************************************************************)
(* Letters.  \w of a regular expression without the flag u is an ASCII     *)
(* letter, a digit or the underscore.  toLowerCase and the flag i follow   *)
(* the Unicode case mappings; they are given here for the characters of    *)
(* Chars: all of U+0000 .. U+00FF, the white space beyond, and the letters *)
(* of Beyond.  On any other character the mappings are not defined.        *)
(***************************************************************************)
LowerLetters == <<"a", "b", "c", "d", "e", "f", "g", "h", "i", "j", "k",
                  "l", "m", "n", "o", "p", "q", "r", "s", "t", "u", "v",
                  "w", "x", "y", "z">>

UpperLetters == <<"A", "B", "C", "D", "E", "F", "G", "H", "I", "J", "K",
                  "L", "M", "N", "O", "P", "Q", "R", "S", "T", "U", "V",
                  "W", "X", "Y", "Z">>

\* U+00C0 .. U+00DE without the multiplication sign U+00D7
LatinUpper ==
  <<"U+00C0", "U+00C1", "U+00C2", "U+00C3", "U+00C4", "U+00C5", "U+00C6",
    "U+00C7", "U+00C8", "U+00C9", "U+00CA", "U+00CB", "U+00CC", "U+00CD",
    "U+00CE", "U+00CF", "U+00D0", "U+00D1", "U+00D2", "U+00D3", "U+00D4",
    "U+00D5", "U+00D6", "U+00D8", "U+00D9", "U+00DA", "U+00DB", "U+00DC",
    "U+00DD", "U+00DE">>

\* U+00E0 .. U+00FE without the division sign U+00F7
LatinLower ==
  <<"U+00E0", "U+00E1", "U+00E2", "U+00E3", "U+00E4", "U+00E5", "U+00E6",
    "U+00E7", "U+00E8", "U+00E9", "U+00EA", "U+00EB", "U+00EC", "U+00ED",
    "U+00EE", "U+00EF", "U+00F0", "U+00F1", "U+00F2", "U+00F3", "U+00F4",
    "U+00F5", "U+00F6", "U+00F8", "U+00F9", "U+00FA", "U+00FB", "U+00FC",
    "U+00FD", "U+00FE">>

\* capital and small letters beyond U+00FF: A with macron, Y with
\* diaeresis (small: U+00FF), sigma, Cyrillic de
BeyondUpper == <<"U+0100", "U+0178", "U+03A3", "U+0414">>

BeyondLower == <<"U+0101", "U+00FF", "U+03C3", "U+0434">>

\* capital I with dot above, combining dot above, final small sigma
DottedI == "U+0130"

DotAbove == "U+0307"

FinalSigma == "U+03C2"

Beyond ==
  {BeyondUpper[n] : n \in DOMAIN BeyondUpper}
    \cup {BeyondLower[n] : n \in DOMAIN BeyondLower}
    \cup {DottedI, DotAbove, FinalSigma}

Printable ==
  {" ", "!", "\"", "#", "$", "%", "&", "'", "(", ")", "*", "+", ",", "-",
   ".", "/", "0", "1", "2", "3", "4", "5", "6", "7", "8", "9", ":", ";",
   "<", "=", ">", "?", "@", "A", "B", "C", "D", "E", "F", "G", "H", "I",
   "J", "K", "L", "M", "N", "O", "P", "Q", "R", "S", "T", "U", "V", "W",
   "X", "Y", "Z", "[", "\\", "]", "^", "_", "a", "b", "c", "d", "e",
   "f", "g", "h", "i", "j", "k", "l", "m", "n", "o", "p", "q", "r", "s",
   "t", "u", "v", "w", "x", "y", "z", "{", "|", "}", "~"}

\* the characters the case mappings are given for
Chars ==
  Printable \cup ((Named({"0", "1"}) \cup {"U+0060", "U+007F"})
                    \ {"U+0009", "U+000A", "U+000C", "U+000D"})
    \cup Named({"8", "9", "A", "B", "C", "D", "E", "F"})
    \cup WhiteSpace \cup Beyond

AllUpper == UpperLetters \o LatinUpper \o BeyondUpper

AllLower == LowerLetters \o LatinLower \o BeyondLower

\* the character has a lower-case form different from itself
IsUpper(c) ==
  IF c = DottedI \/ \E n \in DOMAIN AllUpper : AllUpper[n] = c THEN TRUE
  ELSE CASE c \in Chars -> FALSE

\* String.prototype.toLowerCase on a string of the one character: a capital
\* letter gives its small letter, capital I with dot above gives i and the
\* combining dot
ToLowerChar(c) ==
  IF c = DottedI THEN <<"i", DotAbove>>
  ELSE IF \E n \in DOMAIN AllUpper : AllUpper[n] = c
    THEN <<AllLower[CHOOSE n \in DOMAIN AllUpper : AllUpper[n] = c]>>
  ELSE CASE c \in Chars -> <<c>>

\* the Unicode properties Cased and Case_Ignorable, given for the
\* characters of Chars only
Cased(c) ==
  IF \/ \E n \in DOMAIN AllUpper : c \in {AllUpper[n], AllLower[n]}
     \/ c \in {"U+00AA", "U+00B5", "U+00BA", "U+00DF", DottedI, FinalSigma}
  THEN TRUE
  ELSE CASE c \in Chars -> FALSE

CaseIgnorable(c) ==
  IF c \in {"'", ".", ":", "^", "U+0060", "U+00A8", "U+00AD", "U+00AF", "U+00B4",
            "U+00B7", "U+00B8", DotAbove, "U+FEFF"}
  THEN TRUE
  ELSE CASE c \in Chars -> FALSE

\* the condition Final_Sigma for the capital sigma at position k: a cased
\* letter and then case-ignorable characters before it, and no
\* case-ignorable characters and then a cased letter after it
IsFinalSigma(s, k) ==
  /\ \E j \in 1 .. k - 1 :
       Cased(s[j]) /\ \A m \in j + 1 .. k - 1 : CaseIgnorable(s[m])
  /\ ~\E j \in k + 1 .. Len(s) :
        Cased(s[j]) /\ \A m \in k + 1 .. j - 1 : CaseIgnorable(s[m])

RECURSIVE LowerFrom(_, _)
LowerFrom(s, k) ==
  IF k > Len(s) THEN <<>>
  ELSE (IF s[k] = "U+03A3" /\ IsFinalSigma(s, k) THEN <<FinalSigma>>
        ELSE ToLowerChar(s[k]))
       \o LowerFrom(s, k + 1)

\* String.prototype.toLowerCase on a text
ToLower(s) == LowerFrom(s, 1)

\* Canonicalize of a regular expression with the flag i and without the
\* flag u: the character's toUpperCase when that is one code unit, and not
\* an ASCII character for a character beyond ASCII
Canonicalize(c) ==
  IF c = "U+00B5" THEN "U+039C"
  ELSE IF c = FinalSigma THEN "U+03A3"
  ELSE IF \E n \in DOMAIN AllLower : AllLower[n] = c
    THEN AllUpper[CHOOSE n \in DOMAIN AllLower : AllLower[n] = c]
  ELSE CASE c \in Chars -> c

(***************************************************************************)
(* countWords: the number of white-space delimited tokens of the trimmed   *)
(* text.                                                                   *)
(***************************************************************************)
RECURSIVE CountTokens(_, _)
CountTokens(s, i) ==
  IF i > Len(s) THEN 0
  ELSE IF IsWs(s[i]) THEN CountTokens(s, i + 1)
  ELSE IF i = 1 \/ IsWs(s[i - 1]) THEN 1 + CountTokens(s, i + 1)
  ELSE CountTokens(s, i + 1)

countWords(text) == IF Len(text) = 0 THEN 0 ELSE CountTokens(Trim(text), 1)

\* key.toLowerCase(): a column name is a string, lower-cased character by
\* character
RECURSIVE ToLowerKey(_)
ToLowerKey(key) ==
  IF key = "" THEN "" ELSE ToLowerChar(Head(key))[1] \o ToLowerKey(Tail(key))

\* obj[key] = val
SetAttr(obj, key, val) ==
  [k \in DOMAIN obj \cup {key} |-> IF k = key THEN val ELSE obj[k]]

EmptyObj == [k \in {} |-> 0]

(***************************************************************************)
(* processRow.  A raw record is [id, cells]: id the raw id string and      *)
(* cells the other columns in file order, each [key, value].  The result   *)
(* is NoRow (null, the only row with an empty id) or [id, attrs, keys]:    *)
(* attrs maps column name to value, keys lists the names in the order the  *)
(* properties were created (after id, which { id: ... } creates first).    *)
(***************************************************************************)
NoRow == [id |-> <<>>, attrs |-> EmptyObj, keys |-> <<>>]

\* the properties of a new object besides id
NoProps == [attrs |-> EmptyObj, keys |-> <<>>]

\* obj[key] = val: a new property goes last, an existing one keeps its place
SetProp(obj, key, val) ==
  [attrs |-> SetAttr(obj.attrs, key, val),
   keys |-> IF key \in DOMAIN obj.attrs THEN obj.keys ELSE Append(obj.keys, key)]

\* processedRow[key] = numValue
StoreNumber(obj, key, numValue) ==
  SetProp(obj, key, Numeric(numValue.m, numValue.e))

\* processedRow.label_word_count = countWords(stringValue)
StoreWordCount(obj, count) ==
  SetProp(obj, "label_word_count", Numeric(count.m, count.e))

\* lines 43-55: the text branch
StoreText(obj, key, stringValue) ==
  IF stringValue = <<>> THEN obj
  ELSE IF ToLowerKey(key) = "caption"
    THEN StoreWordCount(
           SetProp(SetProp(obj, key, Text(stringValue)), "label", Text(stringValue)),
           Normalize(countWords(stringValue), 0))
  ELSE IF ToLowerKey(key) = "label"
    THEN StoreWordCount(SetProp(obj, key, Text(stringValue)),
                        Normalize(countWords(stringValue), 0))
  ELSE SetProp(obj, key, Text(stringValue))

StoreParsed(obj, key, value, numValue) ==
  IF IsFiniteNumber(numValue)
  THEN StoreNumber(obj, key, numValue)
  ELSE StoreText(obj, key, Trim(value))

ProcessCell(obj, key, value) ==
  IF value = <<>> THEN obj
  ELSE StoreParsed(obj, key, value, parseFloat(value))

RECURSIVE ProcessCells(_, _, _)
ProcessCells(obj, cells, k) ==
  IF k > Len(cells) THEN obj
  ELSE ProcessCells(
         IF cells[k].key = "id" THEN obj
         ELSE ProcessCell(obj, cells[k].key, cells[k].value),
         cells, k + 1)

processRow(row) ==
  IF row.id = <<>> THEN NoRow
  ELSE [id |-> row.id,
        attrs |-> ProcessCells(NoProps, row.cells, 1).attrs,
        keys |-> ProcessCells(NoProps, row.cells, 1).keys]

\* the key is an array index: a decimal numeral without a leading zero (of
\* at most nine digits in the model)
RECURSIVE AllDigits(_)
AllDigits(key) == key = "" \/ (IsDigit(Head(key)) /\ AllDigits(Tail(key)))

IsArrayIndex(key) ==
  /\ key # ""
  /\ Len(key) <= 9
  /\ AllDigits(key)
  /\ (Len(key) = 1 \/ Head(key) # "0")

RECURSIVE IndexValue(_, _)
IndexValue(key, acc) ==
  IF key = "" THEN acc ELSE IndexValue(Tail(key), acc * 10 + DigitVal(Head(key)))

\* the array index keys in ascending order
RECURSIVE SortedIndexKeys(_)
SortedIndexKeys(keys) ==
  IF keys = {} THEN <<>>
  ELSE LET least == CHOOSE k \in keys :
                      \A o \in keys : IndexValue(k, 0) <= IndexValue(o, 0)
       IN  <<least>> \o SortedIndexKeys(keys \ {least})

\* Object.keys(row), for (const key in row): the array index keys in
\* ascending order, then the other keys in the order of their creation
ObjectKeys(row) ==
  SortedIndexKeys({k \in DOMAIN row.attrs : IsArrayIndex(k)})
    \o SelectSeq(<<"id">> \o row.keys, LAMBDA k : ~IsArrayIndex(k))

(***************************************************************************)
(* The row store (IndexedDB object store 'dataRows', keyPath 'id').        *)
(* store maps the ids present to their rows.  Readwrite transactions on    *)
(* the one object store run one at a time in the order of their creation:  *)
(* txQueue holds the transactions created whose complete or abort event    *)
(* has not fired yet.  A transaction is open while it has requests to      *)
(* serve; the event that ends it is a later task than the last success or  *)
(* error event of its requests, and no handler of the program listens to   *)
(* it.                                                                     *)
(***************************************************************************)
Imports == 1 .. MaxImports

\* the id strings the model uses; "" is the empty or missing id
IdChars == <<"a", "b", "c", "d", "e">>

Ids == {<<IdChars[n]>> : n \in 1 .. NumIds}

ReadIds == {<<IdChars[n]>> : n \in 1 .. MaxReadRows}

NoId == <<>>

VARIABLES
  store,         \* object store: id -> row
  stamp,         \* id -> the number of store.clear() calls executed before the row was put
  txQueue,       \* the transactions not yet complete, in creation order
  putErrors,     \* put requests rejected so far
  parseErrors,   \* stream errors raised so far
  isProcessing,  \* React state of FileUpload
  progress,      \* React state of FileUpload
  started,       \* number of handleFileChange runs so far
  file,          \* per import: file.name
  pc,            \* per import: position of handleFileChange / Papa.parse
  batch,         \* per import: const batch
  rowCount,      \* per import: let rowCount
  isWriting,     \* per import: let isWriting
  calls,         \* per import: the writeBatchToDB calls chained on writeQueue
  settled,       \* per import: state of the promise of line 91
  failure,       \* per import: errors delivered to the catch of line 174
  loaded,        \* per import: count arguments of the onDataLoaded calls
  reported,      \* per import: last value the pipeline passed to setProgress
  accepted,      \* per import: number of records processRow accepted
  expected,      \* per import: id -> row built from the last record with that id
  rdState,       \* batchReadData: idle, open (cursor request pending), resolved
  rdOffset,      \* batchReadData: offset
  rdLimit,       \* batchReadData: limit
  rdPos,         \* batchReadData: position of the cursor in key order
  rdSkipped,     \* batchReadData: let skipped
  rdResults,     \* batchReadData: const results
  cellRow,       \* cell specification: the raw record handed to processRow
  cellOut,       \* cell specification: the calls of processRow and their results
  mwText,        \* matchesWord: text
  mwKeyword,     \* matchesWord: keyword
  mwOut,         \* matchesWord: the calls made and their results
  stValues,      \* statistics: the values of one feature over the sample
  stOut,         \* statistics: the entries computed from stValues
  dataCount,     \* App: React state dataCount
  fileType,      \* App: React state fileType
  fileName,      \* App: React state fileName
  sampleData,    \* App: React state sampleData
  isLoading,     \* App: React state isLoading
  loadCalls,     \* App: handleDataLoaded calls waiting for batchReadData
  viz,           \* DataVisualization: the memoized values of the last render
  unmounted,     \* App: a render threw and React removed the whole tree
  conditions,    \* DataFilter: React state conditions
  filteredData,  \* App: React state filteredData
  filterConditions, \* App: React state filterConditions
  isFiltering,   \* DataFilter: React state isFiltering of the instance now mounted
  scans,         \* DataFilter: the filterData calls in flight, oldest first
  lastPublish,   \* DataFilter: the handler that last called onFilterChange
  rsConditions,  \* DataResampling: React state conditions
  resampledData, \* DataResampling: React state resampledData
  rsRun,         \* DataResampling: input, conditions and groups of the last handleResample
  originalColumns, \* App: React state originalColumns
  exportOut      \* DataResampling: the file the last handler call offered for download

storeVars == <<store, stamp, txQueue, putErrors, parseErrors>>
uiVars == <<isProcessing, progress, started>>
importVars == <<file, pc, batch, rowCount, isWriting, calls, settled, failure,
                loaded, reported, accepted, expected>>
readVars == <<rdState, rdOffset, rdLimit, rdPos, rdSkipped, rdResults>>
cellVars == <<cellRow, cellOut>>
matchVars == <<mwText, mwKeyword, mwOut>>
statVars == <<stValues, stOut>>
appVars == <<dataCount, fileType, fileName, sampleData, isLoading, loadCalls, viz,
            unmounted>>
filterVars == <<conditions, filteredData, filterConditions, isFiltering, scans,
               lastPublish>>
resVars == <<rsConditions, resampledData, rsRun, originalColumns, exportOut>>
viewVars == <<matchVars, statVars, appVars, filterVars, resVars>>

\* store.put(row)
Put(st, row) == [k \in DOMAIN st \cup {row.id} |-> IF k = row.id THEN row ELSE st[k]]

\* the puts of one transaction, in request order
RECURSIVE PutAll(_, _, _)
PutAll(st, rows, k) ==
  IF k > Len(rows) THEN st ELSE PutAll(Put(st, rows[k]), rows, k + 1)

Min(a, b) == IF a <= b THEN a ELSE b

\* database.transaction([STORE_NAME], mode) and the requests made on it
NewTx(kind, imp, call, rows) ==
  [kind |-> kind, imp |-> imp, call |-> call, rows |-> rows, open |-> TRUE]

\* the last request of transaction k of the queue was served
Served(queue, k) == [queue EXCEPT ![k].open = FALSE]

\* the readwrite transaction of the kind is the oldest one and has requests
\* to serve
WriteTurn(kind) ==
  /\ txQueue # <<>>
  /\ Head(txQueue).kind = kind
  /\ Head(txQueue).open

Last(s) == s[Len(s)]

\* the files the user picks: import i is offered the file FileOf(i)
FileNames == <<"rows.TSV", "rows.csv">>

FileOf(i) == FileNames[((i - 1) % Len(FileNames)) + 1]

\* the longest file import i reads
FileBound(i) == IF i = 1 THEN MaxRecords ELSE MaxLaterRecords

\* the record at line pos of the file of import i, with the given id
Record(i, pos, id) ==
  [id |-> id,
   cells |-> << [key |-> "file", value |-> <<DigitChar(i)>>],
                [key |-> "line", value |-> <<DigitChar(pos)>>] >>]

(***************************************************************************)
(* One writeBatchToDB call: data is batchCopy, start the startIndex of the *)
(* next writeBatch, processed the counter of batchWriteData, then whether  *)
(* the .then of line 124 is still to run, error the rejection value.       *)
(* phase: queued (chained, not started), tx (a transaction in flight),     *)
(* timer (setTimeout of line 85 pending), done (resolved), failed (put     *)
(* error), skipped (rejected because the queue was already rejected).      *)
(***************************************************************************)
NewCall(dataBatch, fromStep) ==
  [data |-> dataBatch, start |-> 0, processed |-> 0, phase |-> "queued",
   then |-> fromStep, error |-> <<>>]

\* the promise of the call is fulfilled: await batchWriteData returned
Resolved(c) == c.phase = "done"

Rejected(c) == c.phase \in {"failed", "skipped"}

\* writeBatchToDB(dataBatch)
writeBatchToDB(queue, dataBatch, fromStep) ==
  IF Len(dataBatch) = 0 THEN queue
  ELSE Append(queue, NewCall(dataBatch, fromStep))

\* the complete callback not waiting for writeQueue
QueueResolvedNoWait(i) == TRUE

\* writeQueue is fulfilled / rejected
QueueResolved(i) == IF calls[i] = <<>> THEN TRUE ELSE Resolved(Last(calls[i]))

QueueRejected(i) == IF calls[i] = <<>> THEN FALSE ELSE Rejected(Last(calls[i]))

\* the chained callback never runs
ChainReadyNever(i, k) == FALSE

\* writeQueue.then(...): the callback of call k runs once its predecessor is fulfilled
ChainReady(i, k) == IF k = 1 THEN TRUE ELSE Resolved(calls[i][k - 1])

ChainBroken(i, k) == IF k = 1 THEN FALSE ELSE Rejected(calls[i][k - 1])

(***************************************************************************)
(* Scheduling.  Promise reactions are microtasks: they run before the next *)
(* macrotask (a user event, an IndexedDB or file reader event, a timer).   *)
(* The step callbacks of one chunk and the complete callback run inside    *)
(* one macrotask, so they may precede the start of a write they queued.    *)
(***************************************************************************)
MicrotaskPending(i) ==
  \/ \E k \in DOMAIN calls[i] :
       \/ calls[i][k].phase = "queued" /\ (ChainReady(i, k) \/ ChainBroken(i, k))
       \/ calls[i][k].then /\ Resolved(calls[i][k])
  \/ pc[i] \in {"awaitQueue", "awaitFinal"} /\ (QueueResolved(i) \/ QueueRejected(i))

\* the promise of batchReadData is fulfilled and handleDataLoaded has not
\* resumed yet
ReadReactionPending == loadCalls > 0 /\ rdState = "resolved"

\* a new macrotask may start
Quiescent ==
  /\ \A j \in DOMAIN calls : ~MicrotaskPending(j)
  /\ ~ReadReactionPending

\* the parser of import i may run its next callback
ParserMayRun(i) ==
  /\ \A j \in DOMAIN calls : j # i => ~MicrotaskPending(j)
  /\ \A k \in DOMAIN calls[i] : ~(calls[i][k].then /\ Resolved(calls[i][k]))

\* reject(error) of the promise of line 91 and the catch block of line 174
Reject(i, err) ==
  IF settled[i] = "pending"
  THEN /\ settled' = [settled EXCEPT ![i] = "rejected"]
       /\ failure' = [failure EXCEPT ![i] = Append(@, err)]
       /\ isProcessing' = FALSE
       /\ progress' = 0
       /\ reported' = [reported EXCEPT ![i] = 0]
  ELSE UNCHANGED <<settled, failure, isProcessing, progress, reported>>

\* no import has started
NoImport ==
  /\ stamp = [id \in DOMAIN store |-> 0]
  /\ txQueue = <<>>
  /\ putErrors = 0
  /\ parseErrors = 0
  /\ isProcessing = FALSE
  /\ progress = 0
  /\ started = 0
  /\ file = [i \in Imports |-> ""]
  /\ pc = [i \in Imports |-> "idle"]
  /\ batch = [i \in Imports |-> <<>>]
  /\ rowCount = [i \in Imports |-> 0]
  /\ isWriting = [i \in Imports |-> FALSE]
  /\ calls = [i \in Imports |-> <<>>]
  /\ settled = [i \in Imports |-> "pending"]
  /\ failure = [i \in Imports |-> <<>>]
  /\ loaded = [i \in Imports |-> <<>>]
  /\ reported = [i \in Imports |-> 0]
  /\ accepted = [i \in Imports |-> 0]
  /\ expected = [i \in Imports |-> EmptyObj]

\* no batchReadData call has been made
NoRead ==
  /\ rdState = "idle"
  /\ rdOffset = 0
  /\ rdLimit = 0
  /\ rdPos = 0
  /\ rdSkipped = 0
  /\ rdResults = <<>>

\* no record is under classification
NoCell ==
  /\ cellRow = NoRow
  /\ cellOut = <<>>

\* matchesWord has not been called
NoMatch ==
  /\ mwText = <<>>
  /\ mwKeyword = <<>>
  /\ mwOut = <<>>

\* no statistics have been computed
NoStats ==
  /\ stValues = <<>>
  /\ stOut = <<>>

\* App and DataVisualization after mounting: useState initial values
NoApp ==
  /\ dataCount = 0
  /\ fileType = "csv"
  /\ fileName = ""
  /\ unmounted = FALSE
  /\ sampleData = <<>>
  /\ isLoading = FALSE
  /\ loadCalls = 0
  /\ viz = <<>>

\* DataFilter after mounting
NoFilter ==
  /\ conditions = <<>>
  /\ filteredData = <<>>
  /\ filterConditions = <<>>
  /\ isFiltering = FALSE
  /\ scans = <<>>
  /\ lastPublish = [by |-> "none", n |-> 0]

\* no file was offered for download
NoExport == <<>>

\* the value of a parameter the caller passes no argument for
Undefined == "undefined"

\* onDataLoaded(rowCount, isTSV ? 'tsv' : 'csv', file.name): the columns
\* parameter of handleDataLoaded gets no argument
LoadedColumns == Undefined

\* DataResampling after mounting; resampledData is kept as the bag of its
\* rows, the order of the array being the outcome of a random shuffle
NoResample ==
  /\ rsConditions = <<>>
  /\ resampledData = EmptyBag
  /\ rsRun = <<>>
  /\ originalColumns = <<>>
  /\ exportOut = NoExport

NoView == NoMatch /\ NoStats /\ NoApp /\ NoFilter /\ NoResample

Init ==
  /\ store = EmptyObj
  /\ NoImport
  /\ NoRead
  /\ NoCell
  /\ NoView

\* handleFileChange up to clearDB(): the file input is enabled only while
\* isProcessing is false
HandleFileChange(i, name) ==
  /\ ~unmounted
  /\ ~isProcessing
  /\ Quiescent
  /\ started < MaxImports
  /\ i = started + 1
  /\ started' = i
  /\ file' = [file EXCEPT ![i] = name]
  /\ isProcessing' = TRUE
  /\ progress' = 0
  /\ reported' = [reported EXCEPT ![i] = 0]
  /\ pc' = [pc EXCEPT ![i] = "clearing"]
  /\ txQueue' = Append(txQueue, NewTx("clear", i, 0, <<>>))
  /\ UNCHANGED <<store, stamp, putErrors, parseErrors, batch, rowCount, isWriting,
                 calls, settled, failure, loaded, accepted, expected>>
  /\ UNCHANGED <<readVars, cellVars, viewVars>>

\* the clear() calls executed so far: one per import past clearDB
Epoch == Cardinality({i \in Imports : pc[i] \notin {"idle", "clearing"}})

\* a clear that removes nothing
ClearNothing(st) == st

\* store.clear()
Clear(st) == EmptyObj

\* clearDB: request.onsuccess of store.clear(); Papa.parse starts
ClearSuccess ==
  /\ Quiescent
  /\ WriteTurn("clear")
  /\ store' = Clear(store)
  /\ stamp' = [id \in DOMAIN store' |-> stamp[id]]
  /\ txQueue' = Served(txQueue, 1)
  /\ pc' = [pc EXCEPT ![Head(txQueue).imp] = "parsing"]
  /\ UNCHANGED <<putErrors, parseErrors, isProcessing, progress, started,
                 batch, rowCount, isWriting, calls, settled, failure, loaded,
                 reported, accepted, expected, file>>
  /\ UNCHANGED <<readVars, cellVars, viewVars>>

\* the estimate without its cap
estimatedProgressUncapped(n) == (n * 100) \div ESTIMATED_ROWS

\* Math.min(95, (rowCount / 1000000) * 100)
estimatedProgress(n) == Min(95, (n * 100) \div ESTIMATED_ROWS)

\* the step callback of Papa.parse for a record with the given id
Step(i, id) ==
  /\ pc[i] = "parsing"
  /\ ParserMayRun(i)
  /\ rowCount[i] < FileBound(i)
  /\ LET processedRow == processRow(Record(i, rowCount[i] + 1, id))
         ok == processedRow # NoRow
         pushed == IF ok THEN Append(batch[i], processedRow) ELSE batch[i]
         flush == ok /\ Len(pushed) >= BATCH_SIZE /\ ~isWriting[i]
         n == rowCount[i] + 1
     IN  /\ batch' = [batch EXCEPT ![i] = IF flush THEN <<>> ELSE pushed]
         /\ isWriting' = [isWriting EXCEPT ![i] = flush \/ @]
         /\ calls' = [calls EXCEPT ![i] =
                        IF flush THEN writeBatchToDB(@, pushed, TRUE) ELSE @]
         /\ rowCount' = [rowCount EXCEPT ![i] = n]
         /\ IF n % CHUNK_SIZE = 0
              THEN /\ progress' = estimatedProgress(n)
                   /\ reported' = [reported EXCEPT ![i] = estimatedProgress(n)]
              ELSE UNCHANGED <<progress, reported>>
         /\ accepted' = [accepted EXCEPT ![i] = IF ok THEN @ + 1 ELSE @]
         /\ expected' = [expected EXCEPT ![i] =
                           IF ok THEN Put(@, processedRow) ELSE @]
  /\ UNCHANGED <<store, stamp, txQueue, putErrors, parseErrors, isProcessing, started,
                 file, pc, settled, failure, loaded>>
  /\ UNCHANGED <<readVars, cellVars, viewVars>>

\* writeBatch(startIndex) of batchWriteData for call k of import i
writeBatch(i, k) ==
  LET c == calls[i][k]
      endIndex == Min(c.start + BATCH_SIZE, Len(c.data))
  IN  IF c.start >= Len(c.data)
      THEN /\ calls' = [calls EXCEPT ![i][k].phase = "done"]
           /\ UNCHANGED txQueue
      ELSE /\ calls' = [calls EXCEPT ![i][k].phase = "tx"]
           /\ txQueue' = Append(txQueue,
                NewTx("put", i, k, SubSeq(c.data, c.start + 1, endIndex)))

\* writeQueue settles for call k: when it is fulfilled the chained callback
\* runs batchWriteData(batchCopy, BATCH_SIZE); when it is rejected the
\* callback never runs and the rejection reaches the .catch of line 126
StartWrite(i, k) ==
  /\ k \in DOMAIN calls[i]
  /\ calls[i][k].phase = "queued"
  /\ IF ChainBroken(i, k)
     THEN /\ calls' = [calls EXCEPT ![i][k].phase = "skipped",
                                    ![i][k].error = calls[i][k - 1].error]
          /\ Reject(i, calls[i][k - 1].error[1])
          /\ UNCHANGED txQueue
     ELSE /\ ChainReady(i, k)
          /\ writeBatch(i, k)
          /\ UNCHANGED <<settled, failure, isProcessing, progress, reported>>
  /\ UNCHANGED <<store, stamp, putErrors, parseErrors, started, pc, batch, rowCount,
                 isWriting, loaded, accepted, expected, file>>
  /\ UNCHANGED <<readVars, cellVars, viewVars>>

\* the setTimeout callback of line 85
TimerWriteBatch(i, k) ==
  /\ Quiescent
  /\ k \in DOMAIN calls[i]
  /\ calls[i][k].phase = "timer"
  /\ writeBatch(i, k)
  /\ UNCHANGED <<store, stamp, putErrors, parseErrors, uiVars, pc, batch, rowCount,
                 isWriting, settled, failure, loaded, reported, accepted,
                 expected, file>>
  /\ UNCHANGED <<readVars, cellVars, viewVars>>

\* every put of the oldest transaction succeeded (request.onsuccess, line
\* 80); the transaction has no request left and goes on to commit
PutSuccess ==
  /\ Quiescent
  /\ WriteTurn("put")
  /\ LET tx == Head(txQueue)
         c == calls[tx.imp][tx.call]
     IN  /\ store' = PutAll(store, tx.rows, 1)
         /\ stamp' = [id \in DOMAIN store' |->
                         IF \E j \in 1 .. Len(tx.rows) : tx.rows[j].id = id
                         THEN Epoch ELSE stamp[id]]
         /\ calls' = [calls EXCEPT ![tx.imp][tx.call] =
                        [c EXCEPT !.processed = @ + Len(tx.rows),
                                  !.start = Min(c.start + BATCH_SIZE, Len(c.data)),
                                  !.phase = "timer"]]
  /\ txQueue' = Served(txQueue, 1)
  /\ UNCHANGED <<putErrors, parseErrors, uiVars, pc, batch, rowCount,
                 isWriting, settled, failure, loaded, reported, accepted,
                 expected, file>>
  /\ UNCHANGED <<readVars, cellVars, viewVars>>

\* request.error of a rejected put
RequestError == [name |-> "QuotaExceededError"]

\* a failed put whose error is not passed to reject
PutErrorNoReject ==
  /\ Quiescent
  /\ WriteTurn("put")
  /\ putErrors < MaxPutErrors
  /\ putErrors' = putErrors + 1
  /\ calls' = [calls EXCEPT ![Head(txQueue).imp][Head(txQueue).call].phase = "failed",
                            ![Head(txQueue).imp][Head(txQueue).call].error = <<[name |-> "QuotaExceededError"]>>]
  /\ txQueue' = Served(txQueue, 1)
  /\ UNCHANGED <<store, stamp, parseErrors, started, pc, batch, rowCount, isWriting,
                 loaded, reported, accepted, expected, file, settled, failure,
                 isProcessing, progress>>
  /\ UNCHANGED <<readVars, cellVars, viewVars>>

\* a put of the oldest transaction failed (request.onerror, line 74): the
\* transaction aborts, none of its puts is kept, the call is rejected
PutError ==
  /\ Quiescent
  /\ WriteTurn("put")
  /\ putErrors < MaxPutErrors
  /\ putErrors' = putErrors + 1
  /\ LET tx == Head(txQueue)
     IN  /\ calls' = [calls EXCEPT ![tx.imp][tx.call].phase = "failed",
                                   ![tx.imp][tx.call].error = <<RequestError>>]
         /\ Reject(tx.imp, RequestError)
  /\ txQueue' = Served(txQueue, 1)
  /\ UNCHANGED <<store, stamp, parseErrors, started, pc, batch, rowCount, isWriting,
                 loaded, accepted, expected, file>>
  /\ UNCHANGED <<readVars, cellVars, viewVars>>

\* .then(() => { isWriting = false }) of line 124
ThenWritten(i, k) ==
  /\ k \in DOMAIN calls[i]
  /\ calls[i][k].then
  /\ Resolved(calls[i][k])
  /\ isWriting' = [isWriting EXCEPT ![i] = FALSE]
  /\ calls' = [calls EXCEPT ![i][k].then = FALSE]
  /\ UNCHANGED <<storeVars, uiVars, pc, batch, rowCount, settled, failure,
                 loaded, reported, accepted, expected, file>>
  /\ UNCHANGED <<readVars, cellVars, viewVars>>

\* the complete callback up to its first await (the stream has ended)
Complete(i) ==
  /\ pc[i] = "parsing"
  /\ ParserMayRun(i)
  /\ pc' = [pc EXCEPT ![i] = "awaitQueue"]
  /\ UNCHANGED <<storeVars, uiVars, batch, rowCount, isWriting, calls,
                 settled, failure, loaded, reported, accepted, expected, file>>
  /\ UNCHANGED <<readVars, cellVars, viewVars>>

\* setProgress(100), the setTimeout of line 154 and resolve()
Finish(i) ==
  /\ progress' = 100
  /\ reported' = [reported EXCEPT ![i] = 100]
  /\ pc' = [pc EXCEPT ![i] = "timer"]
  /\ settled' = [settled EXCEPT ![i] = IF @ = "pending" THEN "resolved" ELSE @]
  /\ UNCHANGED <<isProcessing, failure>>

\* await writeQueue (line 142) returned or threw
AwaitQueue(i) ==
  /\ pc[i] = "awaitQueue"
  /\ \/ /\ QueueResolved(i)
        /\ Len(batch[i]) > 0
        /\ calls' = [calls EXCEPT ![i] = writeBatchToDB(@, batch[i], FALSE)]
        /\ pc' = [pc EXCEPT ![i] = "awaitFinal"]
        /\ UNCHANGED <<isProcessing, progress, settled, failure, reported>>
     \/ /\ QueueResolved(i)
        /\ Len(batch[i]) = 0
        /\ Finish(i)
        /\ UNCHANGED calls
     \/ /\ QueueRejected(i)
        /\ pc' = [pc EXCEPT ![i] = "stopped"]
        /\ Reject(i, Last(calls[i]).error[1])
        /\ UNCHANGED calls
  /\ UNCHANGED <<storeVars, started, batch, rowCount, isWriting, loaded,
                 accepted, expected, file>>
  /\ UNCHANGED <<readVars, cellVars, viewVars>>

\* await writeBatchToDB(batch); await writeQueue (lines 146-147) returned or threw
AwaitFinal(i) ==
  /\ pc[i] = "awaitFinal"
  /\ \/ /\ QueueResolved(i)
        /\ Finish(i)
     \/ /\ QueueRejected(i)
        /\ pc' = [pc EXCEPT ![i] = "stopped"]
        /\ Reject(i, Last(calls[i]).error[1])
  /\ UNCHANGED <<storeVars, started, batch, rowCount, isWriting, calls,
                 loaded, accepted, expected, file>>
  /\ UNCHANGED <<readVars, cellVars, viewVars>>

\* the complete event (the abort event after a failed put) of transaction k
\* of the queue, all of whose requests were served
TxComplete(k) ==
  /\ Quiescent
  /\ k \in DOMAIN txQueue
  /\ ~txQueue[k].open
  /\ txQueue' = [j \in 1 .. Len(txQueue) - 1 |->
                   IF j < k THEN txQueue[j] ELSE txQueue[j + 1]]
  /\ UNCHANGED <<store, stamp, putErrors, parseErrors, uiVars, importVars,
                 readVars, cellVars, viewVars>>

(***************************************************************************)
(* Reads of the store.  batchReadData and filterData each open one         *)
(* readonly transaction; transactions whose scopes overlap run in the      *)
(* order they were created when one of them is readwrite, readonly         *)
(* transactions run side by side.  IndexedDB orders string keys by their   *)
(* characters.                                                             *)
(***************************************************************************)
CharRank(c) == CHOOSE n \in 1 .. Len(IdChars) : IdChars[n] = c

RECURSIVE KeyLess(_, _)
KeyLess(x, y) ==
  IF y = <<>> THEN FALSE
  ELSE IF x = <<>> THEN TRUE
  ELSE IF CharRank(Head(x)) # CharRank(Head(y))
    THEN CharRank(Head(x)) < CharRank(Head(y))
  ELSE KeyLess(Tail(x), Tail(y))

\* the keys of the set in ascending order
RECURSIVE SortedKeys(_)
SortedKeys(keys) ==
  IF keys = {} THEN <<>>
  ELSE LET least == CHOOSE k \in keys : \A o \in keys \ {k} : KeyLess(k, o)
       IN  <<least>> \o SortedKeys(keys \ {least})

\* the rows of the store in cursor order
StoreRows == [j \in 1 .. Cardinality(DOMAIN store) |-> store[SortedKeys(DOMAIN store)[j]]]

\* database.transaction([STORE_NAME], 'readonly') of batchReadData (reader
\* "cursor") or filterData (reader "scan")
OpenReadonly(queue, reader) == Append(queue, NewTx(reader, 0, 0, <<>>))

IsReadonly(tx) == tx.kind \in {"cursor", "scan"}

\* the open transactions of the reader, by their places in the queue
OpenReads(reader) ==
  {k \in DOMAIN txQueue : txQueue[k].kind = reader /\ txQueue[k].open}

\* the place in the queue of the n-th open transaction of the reader
NthOpen(reader, n) ==
  CHOOSE k \in OpenReads(reader) :
    Cardinality({j \in OpenReads(reader) : j < k}) = n - 1

\* the requests of the reader's n-th open transaction are served: every
\* transaction created before it and not yet complete is readonly
ReadTurn(reader, n) ==
  /\ Cardinality(OpenReads(reader)) >= n
  /\ \A j \in 1 .. NthOpen(reader, n) - 1 : IsReadonly(txQueue[j])

\* the reader's n-th open transaction has served its last request
CloseReadonly(queue, reader, n) == Served(queue, NthOpen(reader, n))

\* batchReadData(offset, limit) up to store.openCursor()
batchReadData(offset, limit) ==
  /\ txQueue' = OpenReadonly(txQueue, "cursor")
  /\ rdState' = "open"
  /\ rdOffset' = offset
  /\ rdLimit' = limit
  /\ rdPos' = 1
  /\ rdSkipped' = 0
  /\ rdResults' = <<>>

\* a caller other than handleDataLoaded reads a page
BatchReadData(offset, limit) ==
  /\ rdState = "idle"
  /\ batchReadData(offset, limit)
  /\ UNCHANGED <<store, stamp, putErrors, parseErrors, uiVars, importVars,
                 cellVars, viewVars>>

\* the skip test off by one
StillSkippingOffByOne(skipped, offset) == skipped <= offset

\* skipped < offset
StillSkipping(skipped, offset) == skipped < offset

\* results.length < limit
RoomLeft(results, limit) == Len(results) < limit

\* request.onsuccess of the cursor request of batchReadData; after
\* resolve(results) the transaction has no request left
CursorSuccess ==
  /\ rdState = "open"
  /\ Quiescent
  /\ ReadTurn("cursor", 1)
  /\ LET keys == SortedKeys(DOMAIN store)
     IN  IF rdPos > Len(keys)
         THEN /\ rdState' = "resolved"
              /\ txQueue' = CloseReadonly(txQueue, "cursor", 1)
              /\ UNCHANGED <<rdPos, rdSkipped, rdResults>>
         ELSE IF StillSkipping(rdSkipped, rdOffset)
         THEN /\ rdSkipped' = rdSkipped + 1
              /\ rdPos' = rdPos + 1
              /\ UNCHANGED <<rdState, rdResults, txQueue>>
         ELSE IF RoomLeft(rdResults, rdLimit)
         THEN /\ rdResults' = Append(rdResults, store[keys[rdPos]])
              /\ rdPos' = rdPos + 1
              /\ UNCHANGED <<rdState, rdSkipped, txQueue>>
         ELSE /\ rdState' = "resolved"
              /\ txQueue' = CloseReadonly(txQueue, "cursor", 1)
              /\ UNCHANGED <<rdPos, rdSkipped, rdResults>>
  /\ UNCHANGED <<rdOffset, rdLimit, store, stamp, putErrors, parseErrors, uiVars,
                 importVars, cellVars, viewVars>>

\* file.name.toLowerCase().endsWith('.tsv')
EndsWith(s, suffix) ==
  Len(s) >= Len(suffix) /\ SubSeq(s, Len(s) - Len(suffix) + 1, Len(s)) = suffix

isTSV(name) == EndsWith(ToLowerKey(name), ".tsv")

\* handleDataLoaded(count, type, name) up to await batchReadData(0,
\* sampleSize); the columns parameter gets no argument.  While isLoading is
\* set App renders none of DataVisualization, DataFilter, DataResampling,
\* whose state is lost
handleDataLoaded(count, type, name) ==
  /\ dataCount' = count
  /\ fileType' = type
  /\ fileName' = name
  /\ filteredData' = <<>>
  /\ originalColumns' = LoadedColumns
  /\ isLoading' = TRUE
  /\ loadCalls' = 1
  /\ viz' = <<>>
  /\ conditions' = <<>>
  /\ rsConditions' = <<>>
  /\ resampledData' = EmptyBag
  /\ rsRun' = <<>>
  /\ exportOut' = NoExport
  /\ isFiltering' = FALSE
  /\ batchReadData(0, Min(SampleCap, count))
  /\ UNCHANGED <<sampleData, unmounted, filterConditions, scans, lastPublish>>

\* handleDataLoaded after the await: setSampleData(sampled), setIsLoading(false)
SampleLoaded ==
  /\ loadCalls = 1
  /\ rdState = "resolved"
  /\ sampleData' = rdResults
  /\ isLoading' = FALSE
  /\ loadCalls' = 0
  /\ rdState' = "idle"
  /\ UNCHANGED <<dataCount, fileType, fileName, viz, unmounted, rdOffset, rdLimit,
                 rdPos, rdSkipped, rdResults, storeVars, uiVars, importVars,
                 cellVars, matchVars, statVars, filterVars, resVars>>

\* the setTimeout callback of line 154: onDataLoaded(rowCount, isTSV ? 'tsv'
\* : 'csv', file.name), which is App's handleDataLoaded, setIsProcessing(false),
\* setProgress(0)
LoadedTimer(i) ==
  /\ pc[i] = "timer"
  /\ Quiescent
  /\ loaded' = [loaded EXCEPT ![i] = Append(@, rowCount[i])]
  /\ handleDataLoaded(rowCount[i], IF isTSV(file[i]) THEN "tsv" ELSE "csv", file[i])
  /\ isProcessing' = FALSE
  /\ progress' = 0
  /\ reported' = [reported EXCEPT ![i] = 0]
  /\ pc' = [pc EXCEPT ![i] = "done"]
  /\ UNCHANGED <<store, stamp, putErrors, parseErrors, started, file, batch,
                 rowCount, isWriting, calls, settled, failure, accepted,
                 expected>>
  /\ UNCHANGED <<cellVars, matchVars, statVars>>

StreamError == [name |-> "StreamParseError"]

\* the error callback of Papa.parse: the file reader failed, parsing stops;
\* setProgress(0) of line 169, and of line 178 when reject(error) reaches
\* the catch block
ParseError(i) ==
  /\ pc[i] = "parsing"
  /\ Quiescent
  /\ parseErrors < MaxParseErrors
  /\ parseErrors' = parseErrors + 1
  /\ pc' = [pc EXCEPT ![i] = "stopped"]
  /\ isProcessing' = FALSE
  /\ progress' = 0
  /\ settled' = [settled EXCEPT ![i] = IF @ = "pending" THEN "rejected" ELSE @]
  /\ failure' = [failure EXCEPT ![i] =
                   IF settled[i] = "pending" THEN Append(@, StreamError) ELSE @]
  /\ reported' = [reported EXCEPT ![i] = 0]
  /\ UNCHANGED <<store, stamp, txQueue, putErrors, started, batch, rowCount,
                 isWriting, calls, loaded, accepted, expected, file>>
  /\ UNCHANGED <<readVars, cellVars, viewVars>>

vars == <<storeVars, uiVars, importVars, readVars, cellVars, viewVars>>

Next ==
  \/ \E i \in Imports : HandleFileChange(i, FileOf(i))
  \/ ClearSuccess
  \/ \E i \in Imports, id \in Ids \cup {NoId} : Step(i, id)
  \/ \E i \in Imports, k \in 1 .. MaxRecords : StartWrite(i, k)
  \/ \E i \in Imports, k \in 1 .. MaxRecords : TimerWriteBatch(i, k)
  \/ PutSuccess
  \/ PutError
  \/ \E k \in DOMAIN txQueue : TxComplete(k)
  \/ \E i \in Imports, k \in 1 .. MaxRecords : ThenWritten(i, k)
  \/ \E i \in Imports : Complete(i)
  \/ \E i \in Imports : AwaitQueue(i)
  \/ \E i \in Imports : AwaitFinal(i)
  \/ \E i \in Imports : LoadedTimer(i)
  \/ CursorSuccess
  \/ SampleLoaded
  \/ \E i \in Imports : ParseError(i)

Spec == Init /\ [][Next]_vars

(***************************************************************************)
(* Properties of the ingest pipeline and the store.                        *)
(***************************************************************************)
\* import i has signalled success and no later import has started
Completed(i) == pc[i] \in {"timer", "done"} /\ started = i

\* the put transactions of import i that are in flight: some of their put
\* requests are not served yet
PutsInFlight(i) ==
  {n \in DOMAIN txQueue :
     txQueue[n].kind = "put" /\ txQueue[n].imp = i /\ txQueue[n].open}

\* the batchWriteData calls of import i that have started and not settled
CallsInFlight(i) == {k \in DOMAIN calls[i] : calls[i][k].phase \in {"tx", "timer"}}

RECURSIVE SumProcessed(_, _)
SumProcessed(q, k) ==
  IF k > Len(q) THEN 0 ELSE q[k].processed + SumProcessed(q, k + 1)

WriteFailed(i) == \E k \in DOMAIN calls[i] : calls[i][k].phase = "failed"

\* C1: after an ingest completes the store holds exactly one row per distinct
\* non-empty id of the file, and it is the row built from the last record
\* carrying that id.
C1_StoreHoldsLastRecordPerId ==
  \A i \in Imports : Completed(i) => store = expected[i]

\* C2: the total row count reported through onDataLoaded equals the number of
\* accepted rows (records with a non-empty id).
C2_ReportedCountIsAcceptedCount ==
  \A i \in Imports : loaded[i] # <<>> => loaded[i][1] = accepted[i]

\* C3: at every instant at most one batch write is in flight against the
\* store: at most one batchWriteData call has started and not settled, and at
\* most one transaction has puts to serve, whichever ingest they belong to.
C3_OneWriteInFlight ==
  /\ Cardinality({c \in Imports \X (1 .. MaxRecords) : c[2] \in CallsInFlight(c[1])}) <= 1
  /\ Cardinality(UNION {PutsInFlight(i) : i \in Imports}) <= 1

\* C4: when success is signalled (progress 100, onDataLoaded) every accepted
\* row, the partial final batch included, has been written (its put request
\* has succeeded), no write of the ingest is outstanding and the batch in
\* memory is empty or was handed to the last write.
C4_CompletionAfterAllWrites ==
  \A i \in Imports :
    (reported[i] = 100 \/ pc[i] \in {"timer", "done"} \/ loaded[i] # <<>>) =>
      /\ \A k \in DOMAIN calls[i] : Resolved(calls[i][k])
      /\ PutsInFlight(i) = {}
      /\ SumProcessed(calls[i], 1) = accepted[i]
      /\ Len(batch[i]) > 0 => Last(calls[i]).data = batch[i]

\* success was signalled after a full batch and a partial final batch
C4_Witness ==
  \E i \in Imports :
    /\ pc[i] = "timer"
    /\ Len(calls[i]) >= 2
    /\ ~Last(calls[i]).then
    /\ Len(Last(calls[i]).data) < BATCH_SIZE
    /\ Len(Last(calls[i]).data) > 0

\* the stream of import i is drained and all its writes have finished
Drained(i) ==
  /\ pc[i] \in {"timer", "done"}
  /\ \A k \in DOMAIN calls[i] : Resolved(calls[i][k])
  /\ PutsInFlight(i) = {}

\* the ingest of import i is running: it has neither failed nor handed its
\* rows over in the timer callback of line 154
Running(i) ==
  /\ pc[i] \in {"clearing", "parsing", "awaitQueue", "awaitFinal", "timer"}
  /\ settled[i] # "rejected"

\* C5: the progress values an ingest reports before it is drained are in
\* [0,100) and, as long as the ingest is running, never decrease; 100 is
\* reported only once it is drained.
C5_ProgressMonotoneBelow100 ==
  /\ [](\A i \in Imports :
          /\ ~Drained(i) => (reported[i] >= 0 /\ reported[i] < 100)
          /\ reported[i] = 100 => Drained(i))
  /\ [][\A i \in Imports : Running(i)' => reported'[i] >= reported[i]]_vars

\* an estimate was capped while the parser was still running
C5_Witness ==
  \E i \in Imports : pc[i] = "parsing" /\ reported[i] = 95 /\ rowCount[i] >= CHUNK_SIZE * 2

\* C6: after a batch write failed the error is surfaced, no further batch
\* write is started against the store, success is never signalled, and the
\* failing write leaves the rows written before it in the store.
C6_WriteFailureAborts ==
  /\ [](\A i \in Imports : WriteFailed(i) =>
          /\ settled[i] = "rejected"
          /\ failure[i] # <<>>
          /\ reported[i] # 100
          /\ loaded[i] = <<>>
          /\ pc[i] \notin {"timer", "done"}
          /\ PutsInFlight(i) = {}
          /\ CallsInFlight(i) = {})
  /\ [][\A i \in Imports :
          /\ WriteFailed(i) => (PutsInFlight(i)' = {} /\ CallsInFlight(i)' = {})
          /\ (~WriteFailed(i) /\ WriteFailed(i)') => store' = store]_vars

\* a write failed after an earlier batch was written, with accepted rows
\* still unflushed when the stream ended
C6_Witness ==
  \E i \in Imports :
    /\ WriteFailed(i)
    /\ \E k \in DOMAIN calls[i] : Resolved(calls[i][k])
    /\ pc[i] = "stopped"
    /\ Len(batch[i]) > 0
    /\ \E id \in DOMAIN store : store[id].attrs["file"] = Numeric(i, 0)

\* C7: the failure batchWriteData delivers tells how many rows had been
\* durably written before it.
C7_FailureCarriesRowsWritten ==
  \A i \in Imports : \A k \in DOMAIN calls[i] :
    calls[i][k].phase = "failed" =>
      LET err == calls[i][k].error[1]
      IN  IF "written" \in DOMAIN err
            THEN err.written = calls[i][k].processed
            ELSE FALSE

\* C8: when an import completes the store holds only rows of that import's
\* file.
C8_OnlyRowsOfThisImport ==
  \A i \in Imports : Completed(i) =>
    \A id \in DOMAIN store : store[id].attrs["file"] = Numeric(i, 0)

(***************************************************************************)
(* batchReadData(offset, limit): a cursor over the object store in key     *)
(* order.  IndexedDB orders string keys by their characters.               *)
(***************************************************************************)
StoredRow(id) == [id |-> id, attrs |-> EmptyObj, keys |-> <<>>]

InitRead ==
  /\ store \in {[id \in ks |-> StoredRow(id)] : ks \in SUBSET ReadIds}
  /\ NoImport
  /\ NoRead
  /\ NoCell
  /\ NoView

NextRead ==
  \/ \E offset \in 0 .. MaxOffset, limit \in 0 .. MaxLimit :
       BatchReadData(offset, limit)
  \/ CursorSuccess

SpecRead == InitRead /\ [][NextRead]_vars

Max(a, b) == IF a >= b THEN a ELSE b

\* C9: batchReadData(offset, limit) on a store of N rows returns exactly
\* min(limit, max(0, N - offset)) rows: the contiguous run of rows at
\* positions offset .. offset+limit-1 of the key order.
C9_CursorReadReturnsRun ==
  rdState = "resolved" =>
    LET keys == SortedKeys(DOMAIN store)
        n == Min(rdLimit, Max(0, Len(keys) - rdOffset))
    IN  /\ Len(rdResults) = n
        /\ \A j \in 1 .. n : rdResults[j] = store[keys[rdOffset + j]]

\* a read that skipped rows and ran into the end of the store
C9_Witness ==
  /\ rdState = "resolved"
  /\ rdOffset >= 1
  /\ Len(rdResults) >= 2
  /\ Len(rdResults) < rdLimit

(***************************************************************************)
(* processRow on one record with one column x.                             *)
(***************************************************************************)
CellChars == {"1", "5", ".", "-", "e", "a", " ", "\n"}

\* literals beyond the range of a double, and the word Infinity
LongCells ==
  {<<"1", "e", "9", "9", "9">>, <<"-", "1", "e", "9", "9", "9">>,
   <<"1", "e", "-", "9", "9", "9">>, Infinity, <<"-">> \o Infinity}

CellStrings == UNION {[1 .. n -> CellChars] : n \in 0 .. MaxCellLen} \cup LongCells

InitCell ==
  /\ store = EmptyObj
  /\ NoImport
  /\ NoRead
  /\ NoView
  /\ cellOut = <<>>
  /\ \E id \in {NoId, <<"a">>} :
       \/ cellRow = [id |-> id, cells |-> <<>>]
       \/ \E v \in CellStrings :
            cellRow = [id |-> id, cells |-> <<[key |-> "x", value |-> v]>>]

\* processRow(results.data)
ClassifyRow ==
  /\ cellOut = <<>>
  /\ cellOut' = <<processRow(cellRow)>>
  /\ UNCHANGED <<cellRow, storeVars, uiVars, importVars, readVars, viewVars>>

NextCell == ClassifyRow

SpecCell == InitCell /\ [][NextCell]_vars

\* the whole cell, white space at its ends aside, is a finite decimal literal
WholeCellNumeric(v) ==
  LET t == Trim(v)
      p == ParsePrefix(t)
  IN  t # <<>> /\ p.kind = "finite" /\ p.end = Len(t) + 1

\* C10: a raw cell is stored as Numeric iff the whole cell parses as a finite
\* number; any other cell that is non-empty after trimming is stored as Text;
\* empty and missing cells are omitted from the row.
C10_NumericIffWholeCellParses ==
  (cellOut # <<>> /\ cellOut[1] # NoRow) =>
    LET out == cellOut[1].attrs
    IN  IF cellRow.cells = <<>> THEN "x" \notin DOMAIN out
        ELSE LET v == cellRow.cells[1].value
             IN  IF WholeCellNumeric(v)
                   THEN "x" \in DOMAIN out /\ out["x"].tag = "Numeric"
                 ELSE IF Trim(v) # <<>>
                   THEN "x" \in DOMAIN out /\ out["x"] = Text(Trim(v))
                 ELSE "x" \notin DOMAIN out

(***************************************************************************)
(* processRow on one record with label and caption columns in every        *)
(* letter-casing and order.  Papa.parse (header: true) hands the record    *)
(* over as an object, so its column names are distinct.                    *)
(***************************************************************************)
LabelKeys == {"label", "lAbel", "caption", "CAPtion", "x"}

LabelTexts == {<<"a">>, <<"a", "\n", "a">>, <<" ", "a", " ", "a", "\r", "a">>, <<"5">>}

LabelCells ==
  UNION {{c \in [1 .. n -> [key : LabelKeys, value : LabelTexts]] :
            \A j, k \in 1 .. n : j # k => c[j].key # c[k].key} :
         n \in 0 .. MaxLabelCells}

InitLabel ==
  /\ store = EmptyObj
  /\ NoImport
  /\ NoRead
  /\ NoView
  /\ cellOut = <<>>
  /\ \E c \in LabelCells : cellRow = [id |-> <<"a">>, cells |-> c]

NextLabel == ClassifyRow

SpecLabel == InitLabel /\ [][NextLabel]_vars

\* the columns of the row whose name is label or caption in some casing
LabelColumns(attrs) == {k \in DOMAIN attrs : ToLowerKey(k) \in {"label", "caption"}}

\* C11: a row that carries label_word_count carries the number of
\* white-space delimited tokens of its label/caption text as stored: of the
\* label attribute when the row has one as text, of a label/caption column
\* otherwise.
C11_WordCountMatchesLabelText ==
  (cellOut # <<>> /\ "label_word_count" \in DOMAIN cellOut[1].attrs) =>
    LET attrs == cellOut[1].attrs
        count == attrs["label_word_count"]
    IN  IF "label" \in DOMAIN attrs /\ attrs["label"].tag = "Text"
        THEN count = Numeric(countWords(attrs["label"].s), 0)
        ELSE \E k \in LabelColumns(attrs) :
               /\ attrs[k].tag = "Text"
               /\ count = Numeric(countWords(attrs[k].s), 0)

(***************************************************************************)
(* The order statistics of DataVisualization (statistics and               *)
(* labelWordCountStats compute them with the same statements).  A value is *)
(* a number [num |-> n, exp |-> e], the double n * 10^e with e = 0 (an     *)
(* integer) or e = MaxDoubleExp (a number next to the largest double), or, *)
(* for a cell that passed !isNaN as a string, the stored text              *)
(* [text |-> s], which the arithmetic coerces.  A quotient is kept as the  *)
(* fraction [num, den, exp], (num / den) * 10^exp; NaN and the infinities  *)
(* are records [kind |-> ...].                                             *)
(***************************************************************************)
Fraction(num, den, exp) == [num |-> num, den |-> den, exp |-> exp]

NaN == [kind |-> "NaN"]

\* the integer n
NumValue(n) == [num |-> n, exp |-> 0]

\* the number n * 10^308, which processRow stores for a cell such as 1e308
HugeValue(n) == [num |-> n, exp |-> MaxDoubleExp]

TextValue(s) == [text |-> s]

IsNumValue(v) == DOMAIN v = {"num", "exp"}

IsKindValue(v) == DOMAIN v = {"kind"}

IsTextValue(v) == DOMAIN v = {"text"}

\* Number(string): the whole trimmed string is a numeric literal
ToNumber(s) ==
  LET t == Trim(s)
      p == ParsePrefix(t)
  IN  IF t = <<>> THEN [kind |-> "finite", m |-> 0, e |-> 0]
      ELSE IF p.end = Len(t) + 1 THEN NumberOf(p)
      ELSE [kind |-> "NaN", m |-> 0, e |-> 0]

\* the sign of the number a value coerces to: an integer, or a text that
\* reads Infinity or -Infinity or overflows
IsPlusInfinity(v) == IsTextValue(v) /\ ToNumber(v.text).kind = "Infinity"
IsMinusInfinity(v) == IsTextValue(v) /\ ToNumber(v.text).kind = "-Infinity"

\* n1 * 10^e1 < n2 * 10^e2 for two numbers of the model (an integer is far
\* below 10^308)
NumberLess(n1, e1, n2, e2) ==
  IF e1 = e2 THEN n1 < n2
  ELSE IF e1 < e2 THEN n2 > 0 \/ (n2 = 0 /\ n1 < 0)
  ELSE n1 < 0 \/ (n1 = 0 /\ n2 > 0)

\* a - b < 0; Infinity - Infinity is NaN, which sort takes as 0
Before(a, b) ==
  IF IsTextValue(a) \/ IsTextValue(b)
  THEN (IsMinusInfinity(a) /\ ~IsMinusInfinity(b))
         \/ (IsPlusInfinity(b) /\ ~IsPlusInfinity(a))
  ELSE NumberLess(a.num, a.exp, b.num, b.exp)

\* [...values].sort((a, b) => a - b), a stable sort: insertion of v, which
\* precedes the elements of sorted in the array, into an ascending list
RECURSIVE InsertSorted(_, _)
InsertSorted(v, sorted) ==
  IF sorted = <<>> THEN <<v>>
  ELSE IF ~Before(Head(sorted), v) THEN <<v>> \o sorted
  ELSE <<Head(sorted)>> \o InsertSorted(v, Tail(sorted))

RECURSIVE SortNumbers(_)
SortNumbers(values) ==
  IF values = <<>> THEN <<>>
  ELSE InsertSorted(Head(values), SortNumbers(Tail(values)))

\* the decimal digits of n >= 0
RECURSIVE DigitChars(_)
DigitChars(n) ==
  IF n < 10 THEN <<DigitChar(n)>> ELSE Append(DigitChars(n \div 10), DigitChar(n % 10))

\* Number.prototype.toString of an integer
IntToString(n) == IF n < 0 THEN <<"-">> \o DigitChars(0 - n) ELSE DigitChars(n)

\* Number.prototype.toString of n * 10^e: the digits of an integer, and
\* d e+308 for one digit d times 10^308
NumberToString(n, e) ==
  IF e = 0 \/ n = 0 THEN IntToString(n)
  ELSE CASE n > 0 /\ n < 10 -> IntToString(n) \o <<"e", "+">> \o IntToString(e)

\* String(v) of a value, of an infinite sum or of a concatenation
StringOf(v) ==
  IF IsNumValue(v) THEN NumberToString(v.num, v.exp)
  ELSE IF IsTextValue(v) THEN v.text
  ELSE IF IsKindValue(v)
    THEN CASE v.kind = "Infinity" -> Infinity
           [] v.kind = "-Infinity" -> <<"-">> \o Infinity
  ELSE v.concat

\* the double sum of two numbers: exact on integers, Infinity or -Infinity
\* beyond the largest double, and the larger number when the other one is
\* below half a unit of its last place (an integer added to n * 10^308)
AddDoubles(a, b) ==
  IF a.exp = b.exp
  THEN IF Overflows(Normalize(a.num + b.num, a.exp).m, Normalize(a.num + b.num, a.exp).e)
       THEN [kind |-> IF a.num + b.num < 0 THEN "-Infinity" ELSE "Infinity"]
       ELSE [num |-> a.num + b.num, exp |-> a.exp]
  ELSE IF a.num = 0 THEN b
  ELSE IF b.num = 0 THEN a
  ELSE IF a.exp > b.exp THEN a ELSE b

\* a + b: the sum of two numbers, the concatenation as soon as one is a
\* string; an infinite sum stays infinite when a number is added
Plus(a, b) ==
  IF IsNumValue(a) /\ IsNumValue(b) THEN AddDoubles(a, b)
  ELSE IF IsKindValue(a) /\ IsNumValue(b) THEN a
  ELSE [concat |-> StringOf(a) \o StringOf(b)]

\* values.reduce((a, b) => a + b, 0)
RECURSIVE Reduce(_, _)
Reduce(acc, values) ==
  IF values = <<>> THEN acc ELSE Reduce(Plus(acc, Head(values)), Tail(values))

SumNumbers(values) == Reduce(NumValue(0), values)

\* total / den: a sum of numbers gives the fraction, an infinite sum stays
\* infinite, a string is coerced; a string that holds a value of the list
\* reads Infinity, -Infinity or NaN
Divide(total, den) ==
  IF IsNumValue(total) THEN Fraction(total.num, den, total.exp)
  ELSE IF IsKindValue(total) THEN total
  ELSE [kind |-> ToNumber(StringOf(total)).kind]

\* sorted.length % 2 === 0 ? (sorted[n/2 - 1] + sorted[n/2]) / 2
\*                         : sorted[Math.floor(n / 2)]
Median(sorted) ==
  IF Len(sorted) % 2 = 0
  THEN Divide(Plus(sorted[Len(sorted) \div 2], sorted[(Len(sorted) \div 2) + 1]), 2)
  ELSE IF IsNumValue(sorted[(Len(sorted) \div 2) + 1])
    THEN Fraction(sorted[(Len(sorted) \div 2) + 1].num, 1,
                  sorted[(Len(sorted) \div 2) + 1].exp)
  ELSE sorted[(Len(sorted) \div 2) + 1]

\* Math.floor(sorted.length * 0.25)
q1Index(n) == (n * 25) \div 100

\* Math.floor(sorted.length * 0.75)
q3Index(n) == (n * 75) \div 100

\* min, max, mean, median, q1, q3 of a non-empty list (JavaScript indexes
\* from 0, a sequence from 1)
Summary(values, sorted) ==
  [min |-> sorted[1],
   max |-> sorted[Len(sorted)],
   mean |-> Divide(SumNumbers(values), Len(values)),
   median |-> Median(sorted),
   q1 |-> sorted[q1Index(Len(sorted)) + 1],
   q3 |-> sorted[q3Index(Len(sorted)) + 1]]

\* if (values.length === 0) return { min: 0, max: 0, mean: 0, ... }
EmptySummary ==
  [min |-> NumValue(0), max |-> NumValue(0), mean |-> Fraction(0, 1, 0),
   median |-> Fraction(0, 1, 0), q1 |-> NumValue(0), q3 |-> NumValue(0)]

FeatureSummary(values) ==
  IF values = <<>> THEN EmptySummary ELSE Summary(values, SortNumbers(values))

OneToTen == [n \in 1 .. 10 |-> NumValue(n)]

\* the values of a feature: integers, the number 1e308, and the text of a
\* cell Infinity
StatValues ==
  {NumValue(n) : n \in 1 .. MaxStatValue} \cup {HugeValue(1), TextValue(Infinity)}

StatInputs ==
  UNION {[1 .. n -> StatValues] : n \in 0 .. MaxStatLen}
    \cup {OneToTen, [n \in 1 .. 10 |-> NumValue(11 - n)]}

\* every value of the list is a number
AllNumbers(values) == \A i \in DOMAIN values : IsNumValue(values[i])

InitStats ==
  /\ store = EmptyObj
  /\ NoImport
  /\ NoRead
  /\ NoCell
  /\ NoMatch
  /\ NoApp
  /\ NoFilter
  /\ NoResample
  /\ stValues \in StatInputs
  /\ stOut = <<>>

\* one entry of the statistics memo
ComputeStatistics ==
  /\ stOut = <<>>
  /\ stOut' = <<FeatureSummary(stValues)>>
  /\ UNCHANGED <<stValues, storeVars, uiVars, importVars, readVars, cellVars,
                 matchVars, appVars, filterVars, resVars>>

NextStats == ComputeStatistics

SpecStats == InitStats /\ [][NextStats]_vars

\* the element at 0-based position k of the ascending order of the numbers
Ranked(values, k) ==
  CHOOSE v \in {values[i] : i \in DOMAIN values} :
    /\ Cardinality({i \in DOMAIN values :
                      NumberLess(values[i].num, values[i].exp, v.num, v.exp)}) <= k
    /\ k < Cardinality({i \in DOMAIN values :
                          ~NumberLess(v.num, v.exp, values[i].num, values[i].exp)})

\* floor(n * num / 4)
FloorQuarters(n, num) == CHOOSE j \in 0 .. n : 4 * j <= num * n /\ num * n < 4 * (j + 1)

\* the quotient q is the average of the numbers a and b, as a double: half
\* their sum, and half the larger one when the other is an integer far
\* below it
IsAverage(q, a, b) ==
  /\ DOMAIN q = {"num", "den", "exp"}
  /\ IF a.exp = b.exp
     THEN q.exp = a.exp /\ 2 * q.num = q.den * (a.num + b.num)
     ELSE IF a.exp > b.exp
       THEN q.exp = a.exp /\ 2 * q.num = q.den * a.num
     ELSE q.exp = b.exp /\ 2 * q.num = q.den * b.num

\* C15: for a non-empty list of n values, min = sorted[0], max = sorted[n-1],
\* Q1 = sorted[floor(n*0.25)], Q3 = sorted[floor(n*0.75)], the median is the
\* average of sorted[n/2-1] and sorted[n/2] for even n and sorted[floor(n/2)]
\* for odd n; the values 1..10 give min 1, max 10, mean 5.5, median 5.5,
\* Q1 3, Q3 8.
C15_OrderStatistics ==
  (stOut # <<>> /\ stValues # <<>> /\ AllNumbers(stValues)) =>
    LET n == Len(stValues)
        out == stOut[1]
    IN  /\ out.min = Ranked(stValues, 0)
        /\ out.max = Ranked(stValues, n - 1)
        /\ out.q1 = Ranked(stValues, FloorQuarters(n, 1))
        /\ out.q3 = Ranked(stValues, FloorQuarters(n, 3))
        /\ IF n % 2 = 0
           THEN IsAverage(out.median, Ranked(stValues, (n \div 2) - 1),
                          Ranked(stValues, n \div 2))
           ELSE IsAverage(out.median, Ranked(stValues, n \div 2),
                          Ranked(stValues, n \div 2))
        /\ stValues = OneToTen =>
             /\ out.min.num = 1 /\ out.max.num = 10
             /\ out.q1.num = 3 /\ out.q3.num = 8
             /\ 2 * out.mean.num = 11 * out.mean.den
             /\ 2 * out.median.num = 11 * out.median.den

(***************************************************************************)
(* App.handleDataLoaded and the memos of DataVisualization.  A stored row  *)
(* is what processRow made of a record with the columns label and x.       *)
(***************************************************************************)
SampleIds == {<<IdChars[n]>> : n \in 1 .. MaxSampleRows}

\* a writeBatchToDB call that has written its rows
WrittenCall(rows) ==
  [data |-> rows, start |-> Len(rows), processed |-> Len(rows), phase |-> "done",
   then |-> FALSE, error |-> <<>>]

\* the rows left in batch when the records of a file have been parsed in
\* one chunk, as Papa.parse does for a small file; rows are the rows
\* processRow accepted, in file order: the step callback hands over the
\* first BATCH_SIZE of them (isWriting is false then) and keeps the rest,
\* the write being still in flight
FinalBatch(rows) ==
  IF Len(rows) < BATCH_SIZE THEN rows ELSE SubSeq(rows, BATCH_SIZE + 1, Len(rows))

\* the calls of that ingest: the one of the step callback and, for a
\* non-empty batch, the one of the complete callback (line 146)
WrittenCalls(rows) ==
  (IF Len(rows) < BATCH_SIZE THEN <<>>
   ELSE <<WrittenCall(SubSeq(rows, 1, BATCH_SIZE))>>)
    \o (IF FinalBatch(rows) = <<>> THEN <<>> ELSE <<WrittenCall(FinalBatch(rows))>>)

\* the first import, of a file with the given name and count records
\* parsed in one chunk, has written the rows processRow accepted (rows, in
\* file order; a later row replaces an earlier one of the same id) and set
\* the timer of line 154; the batch still holds the rows of the final
\* write, which line 146 does not remove
Ingested(name, rows, count) ==
  /\ store = PutAll(EmptyObj, rows, 1)
  /\ stamp = [id \in DOMAIN store |-> 1]
  /\ txQueue = <<>>
  /\ putErrors = 0
  /\ parseErrors = 0
  /\ isProcessing = TRUE
  /\ progress = 100
  /\ started = 1
  /\ file = [i \in Imports |-> IF i = 1 THEN name ELSE ""]
  /\ pc = [i \in Imports |-> IF i = 1 THEN "timer" ELSE "idle"]
  /\ batch = [i \in Imports |-> IF i = 1 THEN FinalBatch(rows) ELSE <<>>]
  /\ rowCount = [i \in Imports |-> IF i = 1 THEN count ELSE 0]
  /\ isWriting = [i \in Imports |-> FALSE]
  /\ calls = [i \in Imports |-> IF i = 1 THEN WrittenCalls(rows) ELSE <<>>]
  /\ settled = [i \in Imports |-> IF i = 1 THEN "resolved" ELSE "pending"]
  /\ failure = [i \in Imports |-> <<>>]
  /\ loaded = [i \in Imports |-> <<>>]
  /\ reported = [i \in Imports |-> IF i = 1 THEN 100 ELSE 0]
  /\ accepted = [i \in Imports |-> IF i = 1 THEN Len(rows) ELSE 0]
  /\ expected = [i \in Imports |-> IF i = 1 THEN store ELSE EmptyObj]

\* the names of the files offered
FileNameSet == {FileNames[k] : k \in 1 .. Len(FileNames)}

\* the count reported by the ingest of a file that lists the stored rows
\* once each, in key order: rowCount counts every record, a record
\* without an id, which processRow drops, included
LoadedCounts == {Cardinality(DOMAIN store), Cardinality(DOMAIN store) + 1}

SampleTexts == {<<>>, <<"a">>, <<"a", " ", "a">>}

\* the cell Infinity is stored as a text
SampleNumbers == {<<"1">>, Infinity}

SampleNotes == {<<>>, <<"b">>}

\* the row processRow makes of a record with the columns label, x and note
NotedRow(id, text, num, note) ==
  processRow([id |-> id,
              cells |-> <<[key |-> "label", value |-> text],
                          [key |-> "x", value |-> num],
                          [key |-> "note", value |-> note]>>])

SampleRow(id, text, num) == NotedRow(id, text, num, <<>>)

SampleStores ==
  UNION {[ks -> [text : SampleTexts, num : SampleNumbers, note : SampleNotes]] :
           ks \in SUBSET SampleIds}

InitSample ==
  /\ \E cells \in SampleStores :
       store = [id \in DOMAIN cells |->
                  NotedRow(id, cells[id].text, cells[id].num, cells[id].note)]
  /\ \E name \in FileNameSet, count \in LoadedCounts : Ingested(name, StoreRows, count)
  /\ NoRead
  /\ NoCell
  /\ NoView

\* typeof row[key] === 'number', typeof row[key] === 'string'
IsNumber(row, key) == key \in DOMAIN row.attrs /\ row.attrs[key].tag = "Numeric"
IsString(row, key) == key \in DOMAIN row.attrs /\ row.attrs[key].tag = "Text"

\* the value of an integral number [m, e]
NumberValue(v) == v.m * Pow10(v.e)

numericFeatures(data) ==
  IF data = <<>> THEN {} ELSE {key \in DOMAIN data[1].attrs : IsNumber(data[1], key)}

\* Math.ceil(a / b)
CeilDiv(a, b) == (a + b - 1) \div b

\* for (let i = 0; i < data.length; i += step) { sampled.push(data[i]); ... }
RECURSIVE StrideLoop(_, _, _, _)
StrideLoop(data, i, step, sampled) ==
  IF i >= Len(data) THEN sampled
  ELSE IF Len(sampled) + 1 >= SAMPLE_SIZE THEN Append(sampled, data[i + 1])
  ELSE StrideLoop(data, i + step, step, Append(sampled, data[i + 1]))

\* the sampleData memo of DataVisualization
StrideSample(data) ==
  IF Len(data) <= SAMPLE_THRESHOLD THEN data
  ELSE StrideLoop(data, 0, CeilDiv(Len(data), SAMPLE_SIZE), <<>>)

\* !isNaN(val) of a stored value: a number, or a text that Number() reads
\* (a text is stored when parseFloat gave NaN or an infinity, so such a
\* text reads Infinity or -Infinity)
PassesIsNaN(row, feature) ==
  \/ IsNumber(row, feature)
  \/ IsString(row, feature) /\ ToNumber(row.attrs[feature].s).kind # "NaN"

\* row[feature] as the statistics take it
FeatureValue(row, feature) ==
  IF IsNumber(row, feature) THEN NumValue(NumberValue(row.attrs[feature]))
  ELSE TextValue(row.attrs[feature].s)

\* sample.map(row => row[feature]).filter(val => val !== undefined && !isNaN(val))
RECURSIVE FeatureValues(_, _)
FeatureValues(sample, feature) ==
  IF sample = <<>> THEN <<>>
  ELSE IF PassesIsNaN(Head(sample), feature)
    THEN <<FeatureValue(Head(sample), feature)>> \o FeatureValues(Tail(sample), feature)
  ELSE FeatureValues(Tail(sample), feature)

\* isSampled: totalCount ? sampleData.length < totalCount
\*                        : sampleData.length < data.length
isSampledOf(sample, data, totalCount) ==
  IF totalCount # 0 THEN Len(sample) < totalCount ELSE Len(sample) < Len(data)

\* one entry of the statistics memo
StatisticsEntry(feature, sample, data, totalCount) ==
  IF FeatureValues(sample, feature) = <<>>
  THEN [summary |-> EmptySummary, count |-> 0, isSampled |-> FALSE]
  ELSE [summary |-> FeatureSummary(FeatureValues(sample, feature)),
        count |-> IF totalCount # 0 THEN totalCount ELSE Len(data),
        isSampled |-> isSampledOf(sample, data, totalCount)]

NoColumn == ""

\* the first key of the row, other than id, that holds a string
RECURSIVE FirstStringKey(_, _)
FirstStringKey(row, keys) ==
  IF keys = <<>> THEN NoColumn
  ELSE IF Head(keys) # "id" /\ IsString(row, Head(keys)) THEN Head(keys)
  ELSE FirstStringKey(row, Tail(keys))

\* the textColumnForWordCount memo; for (const key in firstRow) visits the
\* keys in the order of Object.keys
textColumnForWordCount(data) ==
  IF data = <<>> THEN NoColumn
  ELSE IF IsString(data[1], "label") THEN "label"
  ELSE IF IsString(data[1], "caption") THEN "caption"
  ELSE FirstStringKey(data[1], ObjectKeys(data[1]))

\* textValue.trim().split(/\s+/).filter(w => w.length > 0).length
WordsOf(row, column) == CountTokens(Trim(row.attrs[column].s), 1)

RECURSIVE WordCounts(_, _)
WordCounts(sample, column) ==
  IF sample = <<>> THEN <<>>
  ELSE IF IsString(Head(sample), column)
    THEN <<NumValue(WordsOf(Head(sample), column))>> \o WordCounts(Tail(sample), column)
  ELSE WordCounts(Tail(sample), column)

\* the labelWordCountStats memo: <<>> stands for null
labelWordCountStats(column, sample, data) ==
  IF column = NoColumn \/ WordCounts(data, column) = <<>> THEN <<>>
  ELSE IF WordCounts(sample, column) = <<>> THEN <<>>
  ELSE <<[summary |-> FeatureSummary(WordCounts(sample, column)),
          count |-> Len(WordCounts(data, column)),
          isSampled |-> Len(sample) < Len(data),
          columnName |-> column]>>

\* data.forEach of the longestLabel / shortestLabel memo: <<>> stands for null
Entry(row, column) ==
  [label |-> Trim(row.attrs[column].s), wordCount |-> WordsOf(row, column), id |-> row.id]

RECURSIVE Longest(_, _, _, _)
Longest(data, k, column, longest) ==
  IF k > Len(data) THEN longest
  ELSE IF IsString(data[k], column)
          /\ (IF longest = <<>> THEN TRUE
              ELSE WordsOf(data[k], column) > longest[1].wordCount)
    THEN Longest(data, k + 1, column, <<Entry(data[k], column)>>)
  ELSE Longest(data, k + 1, column, longest)

RECURSIVE Shortest(_, _, _, _)
Shortest(data, k, column, shortest) ==
  IF k > Len(data) THEN shortest
  ELSE IF IsString(data[k], column)
          /\ (IF shortest = <<>> THEN TRUE
              ELSE WordsOf(data[k], column) < shortest[1].wordCount)
    THEN Shortest(data, k + 1, column, <<Entry(data[k], column)>>)
  ELSE Shortest(data, k + 1, column, shortest)

longestLabel(data, column) ==
  IF column = NoColumn THEN <<>> ELSE Longest(data, 1, column, <<>>)

shortestLabel(data, column) ==
  IF column = NoColumn THEN <<>> ELSE Shortest(data, 1, column, <<>>)

\* the memos of <DataVisualization data={sampleData} totalCount={dataCount} />
Visualization(data, totalCount) ==
  [sample |-> StrideSample(data),
   statistics |-> [feature \in numericFeatures(data) |->
                     StatisticsEntry(feature, StrideSample(data), data, totalCount)],
   column |-> textColumnForWordCount(data),
   wordStats |-> labelWordCountStats(textColumnForWordCount(data),
                                     StrideSample(data), data),
   longest |-> longestLabel(data, textColumnForWordCount(data)),
   shortest |-> shortestLabel(data, textColumnForWordCount(data))]

\* App renders its components when dataCount > 0 && !isLoading
Shown == dataCount > 0 /\ ~isLoading /\ ~unmounted

\* the render of DataVisualization
Render ==
  /\ Shown
  /\ viz = <<>>
  /\ viz' = <<Visualization(sampleData, dataCount)>>
  /\ UNCHANGED <<dataCount, fileType, fileName, sampleData, isLoading, loadCalls,
                 unmounted, storeVars, uiVars, importVars, readVars, cellVars,
                 matchVars, statVars, filterVars, resVars>>

NextSample ==
  \/ LoadedTimer(1)
  \/ CursorSuccess
  \/ SampleLoaded
  \/ Render

SpecSample == InitSample /\ [][NextSample]_vars

\* C12: for a store of more than the cap rows the sample used for the
\* statistics has exactly cap rows, the rows at positions 0, stride,
\* 2*stride, ... of the store order with stride = ceil(totalRows / cap).
C12_StrideSampleAboveCap ==
  (viz # <<>> /\ Len(StoreRows) > SampleCap) =>
    LET stride == CeilDiv(Len(StoreRows), SampleCap)
        sample == viz[1].sample
    IN  /\ Len(sample) = SampleCap
        /\ \A j \in 1 .. Len(sample) :
             /\ (j - 1) * stride + 1 <= Len(StoreRows)
             /\ sample[j] = StoreRows[(j - 1) * stride + 1]

\* C13: isSampled is reported true exactly when the statistics were computed
\* over strictly fewer rows than the store holds; for a store of at most the
\* cap rows the sample is the stored row set and isSampled is false.
C13_IsSampledIffStrictSubsample ==
  viz # <<>> =>
    LET v == viz[1]
        strict == Len(v.sample) < Len(StoreRows)
    IN  /\ \A feature \in DOMAIN v.statistics :
             v.statistics[feature].isSampled = strict
        /\ v.wordStats # <<>> => v.wordStats[1].isSampled = strict
        /\ Len(StoreRows) <= SampleCap =>
             /\ v.sample = StoreRows
             /\ \A feature \in DOMAIN v.statistics :
                  ~v.statistics[feature].isSampled

\* C14: the rows reported with the maximum and the minimum word count are
\* the extremes over all rows of the store, also above the cap.
C14_ExtremesOverFullStore ==
  (viz # <<>> /\ viz[1].column # NoColumn) =>
    \A j \in 1 .. Len(StoreRows) :
      IsString(StoreRows[j], viz[1].column) =>
        /\ viz[1].longest # <<>>
        /\ viz[1].shortest # <<>>
        /\ WordsOf(StoreRows[j], viz[1].column) <= viz[1].longest[1].wordCount
        /\ WordsOf(StoreRows[j], viz[1].column) >= viz[1].shortest[1].wordCount

(***************************************************************************)
(* matchesWord(text, keyword) of utils/textMatching.ts: the regular        *)
(* expression \b<keyword>\w*\b with the flag i, the keyword lower-cased,   *)
(* trimmed and escaped.                                                    *)
(***************************************************************************)
\* \w: a letter, a digit or the underscore
IsWordChar(c) ==
  \/ \E n \in 1 .. 26 : LowerLetters[n] = c \/ UpperLetters[n] = c
  \/ IsDigit(c)
  \/ c = "_"

IsWordAt(text, q) == q >= 1 /\ q <= Len(text) /\ IsWordChar(text[q])

\* \b before position p of the text
WordBoundary(text, p) == IsWordAt(text, p - 1) # IsWordAt(text, p)

\* the escaped keyword, matched literally and ignoring case, at position p
KeywordAt(text, p, keywordLower) ==
  /\ p + Len(keywordLower) - 1 <= Len(text)
  /\ \A k \in 1 .. Len(keywordLower) :
       Canonicalize(text[p + k - 1]) = Canonicalize(keywordLower[k])

\* \w*\b from position q on
TailMatches(text, q) ==
  \E r \in q .. Len(text) + 1 :
    /\ \A k \in q .. r - 1 : IsWordChar(text[k])
    /\ WordBoundary(text, r)

\* the keyword anywhere in the text, without the word boundaries
RegexTestNoBoundary(text, keywordLower) ==
  \E p \in 1 .. Len(text) : KeywordAt(text, p, keywordLower)

\* regex.test(text)
RegexTest(text, keywordLower) ==
  \E p \in 1 .. Len(text) :
    /\ WordBoundary(text, p)
    /\ KeywordAt(text, p, keywordLower)
    /\ TailMatches(text, p + Len(keywordLower))

matchesWord(text, keyword) ==
  IF text = <<>> \/ keyword = <<>> THEN FALSE
  ELSE IF Trim(ToLower(keyword)) = <<>> THEN FALSE
  ELSE RegexTest(text, Trim(ToLower(keyword)))

MatchChars == {"c", "r", "y", "a", "C", " ", "."}

TheBoyIsCrying == <<"T", "h", "e", " ", "b", "o", "y", " ", "i", "s", " ", "c", "r", "y", "i", "n", "g">>
SheCries == <<"s", "h", "e", " ", "c", "r", "i", "e", "s">>
Cries == <<"c", "r", "i", "e", "s">>
Crying == <<"C", "r", "y", "i", "n", "g">>
AcrylicPaint == <<"a", "c", "r", "y", "l", "i", "c", " ", "p", "a", "i", "n", "t">>
Cry == <<"c", "r", "y">>
\* E with acute, capital and small, before CRY and cry
Ecrit == <<"U+00C9", "C", "R", "Y", " ", "U+00E9", "c", "r", "y">>

\* a capital sigma inside a word
Sigmas == <<"a", "U+03A3", "b">>

MatchTexts ==
  UNION {[1 .. n -> MatchChars] : n \in 0 .. MaxTextLen}
    \cup {TheBoyIsCrying, SheCries, Cries, Crying, AcrylicPaint, Ecrit, Sigmas}

MatchKeywords ==
  {Cry, <<"C", "r", "y">>, <<" ", "c", "r", "y", " ">>, <<"c", "r">>, <<"y">>, <<"c", ".">>, <<" ">>, <<>>,
   <<"U+00C9", "c">>, <<"a", "U+03A3">>, <<"U+FEFF", "c", "r", "y", "U+3000">>}

InitMatch ==
  /\ store = EmptyObj
  /\ NoImport
  /\ NoRead
  /\ NoCell
  /\ NoStats
  /\ NoApp
  /\ NoFilter
  /\ NoResample
  /\ mwText \in MatchTexts
  /\ mwKeyword \in MatchKeywords
  /\ mwOut = <<>>

MatchesWord ==
  /\ mwOut = <<>>
  /\ mwOut' = <<matchesWord(mwText, mwKeyword)>>
  /\ UNCHANGED <<mwText, mwKeyword, storeVars, uiVars, importVars, readVars,
                 cellVars, statVars, appVars, filterVars, resVars>>

NextMatch == MatchesWord

SpecMatch == InitMatch /\ [][NextMatch]_vars

\* the maximal runs of word characters of the text, as [from, to]
WordsIn(text) ==
  {w \in (1 .. Len(text)) \X (1 .. Len(text)) :
     /\ w[1] <= w[2]
     /\ \A k \in w[1] .. w[2] : IsWordChar(text[k])
     /\ ~IsWordAt(text, w[1] - 1)
     /\ ~IsWordAt(text, w[2] + 1)}

\* some word of the text starts with the keyword, letter case aside
SomeWordStartsWith(text, keyword) ==
  \E w \in WordsIn(text) :
    /\ w[2] - w[1] + 1 >= Len(keyword)
    /\ \A k \in 1 .. Len(keyword) : ToLowerChar(text[w[1] + k - 1]) = ToLowerChar(keyword[k])

WordKeyword(keyword) ==
  keyword # <<>> /\ \A k \in 1 .. Len(keyword) : IsWordChar(keyword[k])

\* C18: matchesWord ignores case and matches the keyword only at the start
\* of a word, followed by zero or more word characters up to a word
\* boundary; "cry" matches texts containing "crying" or "cries" and
\* "Crying", and never "acrylic paint".
C18_MatchesWordExamples ==
  mwOut # <<>> =>
    /\ WordKeyword(Trim(mwKeyword)) =>
         (mwOut[1] <=> SomeWordStartsWith(mwText, Trim(mwKeyword)))
    /\ (mwKeyword = Cry /\ mwText \in {TheBoyIsCrying, SheCries, Cries, Crying}) =>
         mwOut[1]
    /\ (mwKeyword = Cry /\ mwText = AcrylicPaint) => ~mwOut[1]

\* C18 as amended: the same, with "cries", which does not contain "cry",
\* not matched.
C18_MatchesWordPrefixOfWord ==
  mwOut # <<>> =>
    /\ WordKeyword(Trim(mwKeyword)) =>
         (mwOut[1] <=> SomeWordStartsWith(mwText, Trim(mwKeyword)))
    /\ (mwKeyword = Cry /\ mwText \in {TheBoyIsCrying, Crying}) => mwOut[1]
    /\ (mwKeyword = Cry /\ mwText \in {AcrylicPaint, SheCries, Cries}) => ~mwOut[1]

\* "cry" has been looked for in "acrylic paint" and in "The boy is crying"
C18_Witness ==
  /\ mwOut # <<>>
  /\ mwKeyword = Cry
  /\ \/ mwText = AcrylicPaint /\ ~mwOut[1]
     \/ mwText = TheBoyIsCrying /\ mwOut[1]

(***************************************************************************)
(* DataFilter: the condition list, handleApplyFilter and filterData.  The  *)
(* cursor of filterData runs in one readonly transaction and visits the    *)
(* rows in key order.                                                      *)
(***************************************************************************)
FilterIds == {<<IdChars[n]>> : n \in 1 .. MaxFilterRows}

\* the label and x cells of the records the stored rows were made of
FilterCells ==
  {[text |-> <<"C", "a", "t">>, num |-> <<"1">>],
   [text |-> <<"a", " ", "c", "a", "t">>, num |-> <<"3">>],
   [text |-> <<>>, num |-> <<"1">>],
   [text |-> <<"C", "a", "t">>, num |-> Infinity]}

FilterStores == UNION {[ks -> FilterCells] : ks \in SUBSET FilterIds}

InitFilter ==
  /\ \E cells \in FilterStores :
       store = [id \in DOMAIN cells |-> SampleRow(id, cells[id].text, cells[id].num)]
  /\ \E name \in FileNameSet : Ingested(name, StoreRows, Cardinality(DOMAIN store))
  /\ NoRead
  /\ NoCell
  /\ NoView

Zero == [kind |-> "finite", m |-> 0, e |-> 0]

\* a <= b for two numbers, neither of them NaN: m * 10^e, Infinity or
\* -Infinity
NumLeq(a, b) ==
  IF a.kind = "-Infinity" \/ b.kind = "Infinity" THEN TRUE
  ELSE IF a.kind = "Infinity" \/ b.kind = "-Infinity" THEN FALSE
  ELSE a.m * Pow10(a.e - Min(a.e, b.e)) <= b.m * Pow10(b.e - Min(a.e, b.e))

NumericCondition(feature, min, max) ==
  [type |-> "numeric", feature |-> feature, min |-> min, max |-> max,
   textSearch |-> <<>>, excludeTextSearch |-> <<>>]

\* excludeTextSearch: <<>> stands for undefined
TextCondition(column, textSearch, excludeTextSearch) ==
  [type |-> "text", feature |-> column, min |-> Zero, max |-> Zero,
   textSearch |-> textSearch, excludeTextSearch |-> excludeTextSearch]

\* handleAddNumericCondition: an incomplete form, a value parseFloat reads
\* as NaN, or min > max is refused with an alert
handleAddNumericCondition(selectedFeature, minValue, maxValue) ==
  /\ Shown
  /\ Len(conditions) < MaxConditions
  /\ selectedFeature # "" /\ minValue # <<>> /\ maxValue # <<>>
  /\ parseFloat(minValue).kind # "NaN"
  /\ parseFloat(maxValue).kind # "NaN"
  /\ NumLeq(parseFloat(minValue), parseFloat(maxValue))
  /\ conditions' = Append(conditions,
                          NumericCondition(selectedFeature, parseFloat(minValue),
                                           parseFloat(maxValue)))
  /\ UNCHANGED <<filteredData, filterConditions, isFiltering, scans, lastPublish, storeVars,
                 uiVars, importVars, readVars, cellVars, matchVars, statVars,
                 appVars, resVars>>

\* handleAddTextCondition
handleAddTextCondition(selectedTextColumn, textSearch, excludeTextSearch) ==
  /\ Shown
  /\ Len(conditions) < MaxConditions
  /\ Trim(textSearch) # <<>>
  /\ selectedTextColumn # ""
  /\ conditions' = Append(conditions,
                          TextCondition(selectedTextColumn, Trim(textSearch),
                                        Trim(excludeTextSearch)))
  /\ UNCHANGED <<filteredData, filterConditions, isFiltering, scans, lastPublish, storeVars,
                 uiVars, importVars, readVars, cellVars, matchVars, statVars,
                 appVars, resVars>>

\* conditions.filter((_, i) => i !== index)
RemoveAt(seq, index) ==
  [k \in 1 .. Len(seq) - 1 |-> IF k < index THEN seq[k] ELSE seq[k + 1]]

handleRemoveCondition(index) ==
  /\ Shown
  /\ index \in 1 .. Len(conditions)
  /\ conditions' = RemoveAt(conditions, index)
  /\ UNCHANGED <<filteredData, filterConditions, isFiltering, scans, lastPublish, storeVars,
                 uiVars, importVars, readVars, cellVars, matchVars, statVars,
                 appVars, resVars>>

\* the callback App hands to DataFilter takes (data, conditions);
\* DataFilter calls onFilterChange with one argument
PublishedConditions == Undefined

\* the getTopKeywordResults memo of a render of App throws: filteredData is
\* not empty and filterConditions has no length
RenderThrows(data, conds) == Len(data) # 0 /\ conds = Undefined

\* the button shown while conditions.length > 0: setConditions([]),
\* onFilterChange([]); lastPublish.n keeps the number of scans in flight
ClearAllConditions ==
  /\ Shown
  /\ Len(conditions) > 0
  /\ conditions' = <<>>
  /\ filteredData' = <<>>
  /\ filterConditions' = PublishedConditions
  /\ lastPublish' = [by |-> "clear", n |-> Len(scans)]
  /\ UNCHANGED <<isFiltering, scans, storeVars, uiVars, importVars,
                 readVars, cellVars, matchVars, statVars, appVars, resVars>>

\* condition.min || 0: NaN and 0 are falsy
OrZero(n) == IF n.kind = "NaN" \/ (n.kind = "finite" /\ n.m = 0) THEN Zero ELSE n

\* the number row[feature] is compared as: the stored number, or what
\* Number() makes of a stored text
Coerced(row, feature) ==
  IF IsNumber(row, feature)
  THEN [kind |-> "finite", m |-> row.attrs[feature].m, e |-> row.attrs[feature].e]
  ELSE ToNumber(row.attrs[feature].s)

\* textLower.includes(searchLower)
Includes(text, search) ==
  \E p \in 1 .. Len(text) - Len(search) + 1 :
    SubSeq(text, p, p + Len(search) - 1) = search

\* the numeric branch of the filter function: value === undefined ||
\* isNaN(value) fails, then value >= (min || 0) && value <= (max || 0); isNaN
\* and the comparisons coerce a text value
NumericHolds(row, condition) ==
  IF condition.feature \notin DOMAIN row.attrs THEN FALSE
  ELSE IF ~PassesIsNaN(row, condition.feature) THEN FALSE
  ELSE /\ NumLeq(OrZero(condition.min), Coerced(row, condition.feature))
       /\ NumLeq(Coerced(row, condition.feature), OrZero(condition.max))

\* the text branch of the filter function
TextHolds(row, condition) ==
  IF ~IsString(row, condition.feature) THEN FALSE
  ELSE /\ (IF ToLower(condition.textSearch) # <<>>
           THEN Includes(ToLower(row.attrs[condition.feature].s),
                         ToLower(condition.textSearch))
           ELSE TRUE)
       /\ (IF ToLower(condition.excludeTextSearch) # <<>>
           THEN ~Includes(ToLower(row.attrs[condition.feature].s),
                          ToLower(condition.excludeTextSearch))
           ELSE TRUE)

ConditionHolds(row, condition) ==
  IF condition.type = "numeric" THEN NumericHolds(row, condition)
  ELSE IF condition.type = "text" THEN TextHolds(row, condition)
  ELSE FALSE

\* conditions.every(condition => ...)
AllHold(row, conds) == \A k \in 1 .. Len(conds) : ConditionHolds(row, conds[k])

\* filterData(filterFn): the rows the cursor visits and filterFn accepts
RECURSIVE filterData(_, _)
filterData(rows, conds) ==
  IF rows = <<>> THEN <<>>
  ELSE IF AllHold(Head(rows), conds)
    THEN <<Head(rows)>> \o filterData(Tail(rows), conds)
  ELSE filterData(Tail(rows), conds)

\* the test never succeeds
EmptyConditionsNever(conds) == FALSE

\* conditions.length === 0
EmptyConditions(conds) == Len(conds) = 0

\* the DataFilter instances mounted so far: App mounts a new one after
\* every handleDataLoaded
Instance == Cardinality({i \in Imports : loaded[i] # <<>>})

\* handleApplyFilter up to await filterData(...); the button is disabled
\* while isFiltering.  The call closes over the conditions and the
\* setIsFiltering of the instance it was made in
handleApplyFilter ==
  /\ Shown
  /\ ~isFiltering
  /\ IF EmptyConditions(conditions)
     THEN /\ filteredData' = <<>>
          /\ filterConditions' = PublishedConditions
          /\ lastPublish' = [by |-> "empty", n |-> 0]
          /\ UNCHANGED <<isFiltering, scans, txQueue>>
     ELSE /\ Cardinality({k \in DOMAIN txQueue : txQueue[k].kind = "scan"}) < MaxTx
          /\ isFiltering' = TRUE
          /\ scans' = Append(scans, [conds |-> conditions, inst |-> Instance])
          /\ txQueue' = OpenReadonly(txQueue, "scan")
          /\ UNCHANGED <<filteredData, filterConditions, lastPublish>>
  /\ UNCHANGED <<conditions, store, stamp, putErrors, parseErrors, uiVars,
                 importVars, readVars, cellVars, matchVars, statVars, appVars,
                 resVars>>

\* the cursor of the n-th filterData call in flight has visited the store;
\* handleApplyFilter after the await: onFilterChange(filtered),
\* setIsFiltering(false), which sets the state of the instance the call was
\* made in.  The render that follows throws when the result is not empty;
\* App has no error boundary, so React removes the tree
FilterResolved(n) ==
  /\ n \in DOMAIN scans
  /\ Quiescent
  /\ ReadTurn("scan", n)
  /\ txQueue' = CloseReadonly(txQueue, "scan", n)
  /\ filteredData' = filterData(StoreRows, scans[n].conds)
  /\ filterConditions' = PublishedConditions
  /\ unmounted' = (unmounted \/ RenderThrows(filteredData', filterConditions'))
  /\ lastPublish' = [by |-> "scan", n |-> Len(scans[n].conds)]
  /\ isFiltering' = IF scans[n].inst = Instance THEN FALSE ELSE isFiltering
  /\ scans' = RemoveAt(scans, n)
  /\ UNCHANGED <<conditions, store, stamp, putErrors, parseErrors, uiVars,
                 importVars, readVars, cellVars, matchVars, statVars, dataCount,
                 fileType, fileName, sampleData, isLoading, loadCalls, viz, resVars>>

\* what the user types into the form
FilterMins == {<<"0">>, <<"3">>, <<"a">>, <<>>}

FilterMaxs == {<<"2">>, Infinity}

FilterSearches == {<<"c", "a", "t", " ">>, <<" ">>}

FilterExcludes == {<<"A">>, <<>>}

NextFilter ==
  \/ \E minValue \in FilterMins, maxValue \in FilterMaxs :
       handleAddNumericCondition("x", minValue, maxValue)
  \/ \E textSearch \in FilterSearches, excludeTextSearch \in FilterExcludes :
       handleAddTextCondition("label", textSearch, excludeTextSearch)
  \/ \E index \in 1 .. MaxConditions : handleRemoveCondition(index)
  \/ ClearAllConditions
  \/ handleApplyFilter
  \/ \E n \in 1 .. MaxTx : FilterResolved(n)
  \/ \E k \in DOMAIN txQueue : TxComplete(k)
  \/ LoadedTimer(1)
  \/ CursorSuccess
  \/ SampleLoaded

SpecFilter == InitFilter /\ [][NextFilter]_vars

\* the value of column x of the row, scaled by 10^k, lies in [lo, hi] * 10^k
HasNumberIn(row, column, lo, hi) ==
  /\ column \in DOMAIN row.attrs
  /\ row.attrs[column].tag = "Numeric"
  /\ lo.kind \in {"finite", "-Infinity"}
  /\ hi.kind \in {"finite", "Infinity"}
  /\ \E k \in 0 .. 2 :
       /\ row.attrs[column].e + k >= 0 /\ lo.e + k >= 0 /\ hi.e + k >= 0
       /\ lo.kind = "finite" =>
            lo.m * Pow10(lo.e + k) <= row.attrs[column].m * Pow10(row.attrs[column].e + k)
       /\ hi.kind = "finite" =>
            row.attrs[column].m * Pow10(row.attrs[column].e + k) <= hi.m * Pow10(hi.e + k)

\* the text of the column contains the keyword, letter case aside
HasTextWith(row, column, keyword) ==
  /\ column \in DOMAIN row.attrs
  /\ row.attrs[column].tag = "Text"
  /\ \E p \in 1 .. Len(row.attrs[column].s), q \in 1 .. Len(row.attrs[column].s) :
       /\ q - p + 1 = Len(keyword)
       /\ \A k \in 1 .. Len(keyword) :
            ToLowerChar(row.attrs[column].s[p + k - 1]) = ToLowerChar(keyword[k])

\* the condition holds of the row, as section 4.4 of the specification has it
Satisfies(row, c) ==
  IF c.type = "numeric" THEN HasNumberIn(row, c.feature, c.min, c.max)
  ELSE /\ HasTextWith(row, c.feature, c.textSearch)
       /\ c.excludeTextSearch # <<>> => ~HasTextWith(row, c.feature, c.excludeTextSearch)

IdsOf(rows) == {rows[j].id : j \in 1 .. Len(rows)}

\* C16: a filter run returns exactly the stored rows for which all its
\* conditions hold; the ids a run with the conditions {C1, C2} returns are
\* the ids returned for {C1} alone intersected with those returned for {C2}
\* alone.
C16_FilterIsConjunction ==
  [][\A n \in DOMAIN scans : FilterResolved(n) =>
       /\ IdsOf(filteredData') =
            {id \in DOMAIN store :
               \A k \in 1 .. Len(scans[n].conds) :
                 Satisfies(store[id], scans[n].conds[k])}
       /\ Len(filteredData') = Cardinality(IdsOf(filteredData'))
       /\ \A j \in 1 .. Len(filteredData') :
            filteredData'[j] = store[filteredData'[j].id]
       /\ Len(scans[n].conds) = 2 =>
            IdsOf(filteredData') =
              IdsOf(filterData(StoreRows, <<scans[n].conds[1]>>))
                \cap IdsOf(filterData(StoreRows, <<scans[n].conds[2]>>))]_vars

\* C17: applying the filter with an empty condition list publishes an empty
\* result and starts no scan of the store.
C17_EmptyConditionsPublishEmpty ==
  [][(handleApplyFilter /\ conditions = <<>>) =>
       /\ filteredData' = <<>>
       /\ lastPublish'.by = "empty"
       /\ scans' = scans
       /\ txQueue' = txQueue
       /\ ~isFiltering']_vars

\* Apply with no condition has emptied a published result
C17_Witness ==
  /\ lastPublish.by = "empty"
  /\ conditions = <<>>
  /\ filteredData = <<>>
  /\ ~isFiltering
  /\ store # EmptyObj

(***************************************************************************)
(* DataResampling on top of App's sample: the condition list and           *)
(* handleResample.  The component is shown for TSV files with a label or   *)
(* caption text in the first sample row.                                   *)
(***************************************************************************)
ResampleTexts == {<<"c", "a", "t">>, <<"a", " ", "c", "a", "t">>}

\* stores over the first n ids
ResampleStores ==
  UNION {[{<<IdChars[k]>> : k \in 1 .. n} -> ResampleTexts] : n \in 0 .. MaxSampleRows}

InitResample ==
  /\ \E cells \in ResampleStores :
       store = [id \in DOMAIN cells |-> SampleRow(id, cells[id], <<"1">>)]
  /\ \E name \in FileNameSet : Ingested(name, StoreRows, Cardinality(DOMAIN store))
  /\ NoRead
  /\ NoCell
  /\ NoView

\* the availableColumns memo
availableColumns(data) ==
  IF data = <<>> THEN <<>>
  ELSE (IF IsString(data[1], "label") THEN <<"label">> ELSE <<>>)
         \o (IF IsString(data[1], "caption") THEN <<"caption">> ELSE <<>>)

\* App renders DataResampling when dataCount > 0, !isLoading and
\* sampleData.length > 0; the component returns null when fileType !== 'tsv'
\* and renders its controls unless data.length === 0 ||
\* availableColumns.length === 0
ResamplingShown ==
  /\ Shown
  /\ Len(sampleData) > 0
  /\ fileType = "tsv"
  /\ availableColumns(sampleData) # <<>>

\* the ids Date.now().toString() gives: the clock counts milliseconds, so
\* two calls may read the same value
ClockIds == {IntToString(now) : now \in 1 .. MaxClock}

\* handleAddCondition, Date.now() returning now
handleAddCondition(now) ==
  /\ ResamplingShown
  /\ Len(rsConditions) < MaxResampleConditions
  /\ rsConditions' = Append(rsConditions,
                            [id |-> IntToString(now), keyword |-> <<>>,
                             column |-> availableColumns(sampleData)[1],
                             maxCount |-> <<>>])
  /\ exportOut' = NoExport
  /\ UNCHANGED <<originalColumns, resampledData, rsRun, storeVars, uiVars, importVars, readVars,
                 cellVars, matchVars, statVars, appVars, filterVars>>

\* handleUpdateCondition(id, field, value)
handleUpdateCondition(id, field, value) ==
  /\ ResamplingShown
  /\ \E k \in 1 .. Len(rsConditions) : rsConditions[k].id = id
  /\ rsConditions' =
       [k \in 1 .. Len(rsConditions) |->
          IF rsConditions[k].id = id
          THEN [rsConditions[k] EXCEPT ![field] = value]
          ELSE rsConditions[k]]
  /\ resampledData' = EmptyBag
  /\ rsRun' = <<>>
  /\ exportOut' = NoExport
  /\ UNCHANGED <<originalColumns, storeVars, uiVars, importVars, readVars, cellVars, matchVars,
                 statVars, appVars, filterVars>>

\* conditions.filter(c => c.id !== id)
RECURSIVE WithoutId(_, _)
WithoutId(conds, id) ==
  IF conds = <<>> THEN <<>>
  ELSE IF Head(conds).id = id THEN WithoutId(Tail(conds), id)
  ELSE <<Head(conds)>> \o WithoutId(Tail(conds), id)

\* handleRemoveCondition(id) of DataResampling
handleRemoveResampleCondition(id) ==
  /\ ResamplingShown
  /\ \E k \in 1 .. Len(rsConditions) : rsConditions[k].id = id
  /\ rsConditions' = WithoutId(rsConditions, id)
  /\ resampledData' = EmptyBag
  /\ rsRun' = <<>>
  /\ exportOut' = NoExport
  /\ UNCHANGED <<originalColumns, storeVars, uiVars, importVars, readVars, cellVars, matchVars,
                 statVars, appVars, filterVars>>

\* parseInt(s): the decimal digits after white space and a sign; inputs
\* without a radix prefix
parseInt(s) ==
  IF SkipWs(s, 1) <= Len(s) /\ s[SkipWs(s, 1)] \in {"+", "-"}
  THEN IF DigitsRun(s, SkipWs(s, 1) + 1) = 0 THEN [kind |-> "NaN", n |-> 0]
       ELSE [kind |-> "finite",
             n |-> Signed(s[SkipWs(s, 1)] = "-",
                          DigitsValue(s, SkipWs(s, 1) + 1,
                                      DigitsRun(s, SkipWs(s, 1) + 1)))]
  ELSE IF DigitsRun(s, SkipWs(s, 1)) = 0 THEN [kind |-> "NaN", n |-> 0]
       ELSE [kind |-> "finite",
             n |-> DigitsValue(s, SkipWs(s, 1), DigitsRun(s, SkipWs(s, 1)))]

\* c.keyword.trim() && c.column && c.maxCount.trim()
IsValidCondition(c) ==
  Trim(c.keyword) # <<>> /\ c.column # "" /\ Trim(c.maxCount) # <<>>

RECURSIVE validConditions(_)
validConditions(conds) ==
  IF conds = <<>> THEN <<>>
  ELSE IF IsValidCondition(Head(conds))
    THEN <<Head(conds)>> \o validConditions(Tail(conds))
  ELSE validConditions(Tail(conds))

\* isNaN(maxCountNum) || maxCountNum <= 0 for some valid condition
InvalidCount(valid) ==
  \E k \in 1 .. Len(valid) :
    parseInt(valid[k].maxCount).kind = "NaN" \/ parseInt(valid[k].maxCount).n <= 0

\* getFullData of App above the cap: return sampleData.  Up to the cap it
\* awaits batchReadData(0, dataCount), a read through a transaction of
\* its own; DataResampling, the one caller, asks for it above the cap
\* only, and the value up to the cap is left undefined
getFullData == CASE dataCount > SampleCap -> sampleData

\* getFullDataForResampling: the data prop is App's sampleData
getFullDataForResampling ==
  IF dataCount <= SampleCap THEN sampleData ELSE getFullData

\* typeof value === 'string' && value && matchesWord(value, condition.keyword)
RowMatches(row, condition) ==
  IF IsString(row, condition.column)
  THEN matchesWord(row.attrs[condition.column].s, condition.keyword)
  ELSE FALSE

\* a matching row is claimed whether or not it was claimed before
ClaimsAgain(row, condition, matchedIds) == RowMatches(row, condition)

\* matchesWord(value, condition.keyword) and !allMatchedIds.has(row.id)
Claims(row, condition, matchedIds) ==
  RowMatches(row, condition) /\ row.id \notin matchedIds

\* fullData.forEach of one condition: the rows it claims, given the ids
\* claimed before
RECURSIVE ClaimRows(_, _, _)
ClaimRows(fullData, condition, matchedIds) ==
  IF fullData = <<>> THEN <<>>
  ELSE IF Claims(Head(fullData), condition, matchedIds)
    THEN <<Head(fullData)>>
           \o ClaimRows(Tail(fullData), condition, matchedIds \cup {Head(fullData).id})
  ELSE ClaimRows(Tail(fullData), condition, matchedIds)

\* validConditions.forEach of the grouping step: the matchedRows of each
\* condition, in the order of the conditions
RECURSIVE matchedRows(_, _, _)
matchedRows(fullData, valid, matchedIds) ==
  IF valid = <<>> THEN <<>>
  ELSE <<ClaimRows(fullData, Head(valid), matchedIds)>>
         \o matchedRows(fullData, Tail(valid),
                        matchedIds \cup IdsOf(ClaimRows(fullData, Head(valid), matchedIds)))

\* conditionGroups[condition.id] of each condition once the grouping step
\* is over: conditionGroups[condition.id] = matchedRows was last assigned
\* for the last condition with that id
conditionGroups(valid, matched) ==
  [k \in 1 .. Len(valid) |->
     matched[CHOOSE n \in k .. Len(valid) :
               /\ valid[n].id = valid[k].id
               /\ \A j \in n + 1 .. Len(valid) : valid[j].id # valid[k].id]]

RECURSIVE AllMatchedIds(_)
AllMatchedIds(groups) ==
  IF groups = <<>> THEN {} ELSE IdsOf(Head(groups)) \cup AllMatchedIds(Tail(groups))

RowSet(rows) == {rows[j] : j \in 1 .. Len(rows)}

\* the bag of the rows drawn by index from the group
BagOfDraws(rows, draws) ==
  [r \in {rows[draws[j]] : j \in DOMAIN draws} |->
     Cardinality({j \in DOMAIN draws : rows[draws[j]] = r})]

\* const needed = maxCountNum - rows.length
Needed(maxCountNum, rows) == maxCountNum - Len(rows)

\* shuffled.slice(0, maxCountNum): the first maxCountNum rows of a random
\* order of the group
Sliced(rows, maxCountNum) ==
  {c \in SUBSET RowSet(rows) : Cardinality(c) = maxCountNum}

\* the outcomes of resampling one group to maxCountNum rows: a random
\* choice of maxCountNum rows, or all rows and needed random draws
ResampleGroup(rows, maxCountNum) ==
  IF Len(rows) = 0 THEN {EmptyBag}
  ELSE IF Len(rows) > maxCountNum
    THEN {SetToBag(chosen) : chosen \in Sliced(rows, maxCountNum)}
  ELSE IF Len(rows) < maxCountNum
    THEN {SetToBag(RowSet(rows)) (+) BagOfDraws(rows, draws) :
            draws \in [1 .. Needed(maxCountNum, rows) -> 1 .. Len(rows)]}
  ELSE {SetToBag(RowSet(rows))}

\* validConditions.forEach of the resampling step
RECURSIVE ResampleGroups(_, _)
ResampleGroups(valid, groups) ==
  IF valid = <<>> THEN {EmptyBag}
  ELSE {first (+) rest :
          first \in ResampleGroup(Head(groups), parseInt(Head(valid).maxCount).n),
          rest \in ResampleGroups(Tail(valid), Tail(groups))}

\* no row is carried over
UntouchedNone(fullData, matchedIds) == {}

\* the rows of fullData no condition claimed
Untouched(fullData, matchedIds) == {r \in RowSet(fullData) : r.id \notin matchedIds}

\* the two validations of handleResample: no valid condition, or a valid
\* condition whose count is not a positive number
Refused(conds) ==
  validConditions(conds) = <<>> \/ InvalidCount(validConditions(conds))

\* handleResample; a refused request raises an alert, which leaves no
\* state, and returns before setIsResampling(true) and
\* getFullDataForResampling
handleResample ==
  /\ ResamplingShown
  /\ IF Refused(rsConditions)
     THEN UNCHANGED <<resampledData, rsRun, exportOut>>
     ELSE LET fullData == getFullDataForResampling
              valid == validConditions(rsConditions)
              groups == matchedRows(fullData, valid, {})
          IN  /\ \E resampled \in ResampleGroups(valid, conditionGroups(valid, groups)) :
                   resampledData' =
                     resampled (+) SetToBag(Untouched(fullData, AllMatchedIds(groups)))
              /\ rsRun' = <<[input |-> fullData, conds |-> valid, groups |-> groups]>>
              /\ exportOut' = NoExport
  /\ UNCHANGED <<rsConditions, originalColumns, storeVars, uiVars, importVars, readVars, cellVars,
                 matchVars, statVars, appVars, filterVars>>

\* the header of the files the resample stores were imported from
FileColumns == <<"id", "label", "x">>

\* row[col] ?? ''
ExportCell(row, col) ==
  IF col = "id" THEN row.id
  ELSE IF col \in DOMAIN row.attrs THEN row.attrs[col]
  ELSE <<>>

\* columns.forEach(col => { exportRow[col] = row[col] ?? '' })
ExportRow(row, columns) ==
  [j \in 1 .. Len(columns) |-> ExportCell(row, columns[j])]

\* resampledData.map(...) and Papa.unparse with the columns as header; the
\* rows as a bag, resampledData being one
ExportFile(rows, columns) ==
  [columns |-> columns,
   rows |-> [e \in {ExportRow(r, columns) : r \in BagToSet(rows)} |->
               BagCardinality([r \in {q \in BagToSet(rows) : ExportRow(q, columns) = e}
                                 |-> rows[r]])]]

\* reading originalColumns.length of a value that is no array throws
TypeError == [name |-> "TypeError"]

\* handleExport
handleExport ==
  /\ ResamplingShown
  /\ IF resampledData = EmptyBag
     THEN UNCHANGED exportOut
     ELSE IF originalColumns = Undefined
     THEN exportOut' = <<TypeError>>
     ELSE \E first \in BagToSet(resampledData) :
               exportOut' =
                 <<ExportFile(resampledData,
                              IF Len(originalColumns) > 0 THEN originalColumns
                              ELSE ObjectKeys(first))>>
  /\ UNCHANGED <<rsConditions, resampledData, rsRun, originalColumns, storeVars,
                 uiVars, importVars, readVars, cellVars, matchVars, statVars,
                 appVars, filterVars>>

ResampleKeywords == {<<"c", "a", "t">>, <<"A">>}

ResampleCounts == {<<"1">>, <<"2">>, <<"0">>}

NextResample ==
  \/ LoadedTimer(1)
  \/ CursorSuccess
  \/ SampleLoaded
  \/ \E now \in 1 .. MaxClock : handleAddCondition(now)
  \/ \E id \in ClockIds, value \in ResampleKeywords :
       handleUpdateCondition(id, "keyword", value)
  \/ \E id \in ClockIds, value \in ResampleCounts :
       handleUpdateCondition(id, "maxCount", value)
  \/ \E id \in ClockIds : handleRemoveResampleCondition(id)
  \/ handleResample

SpecResample == InitResample /\ [][NextResample]_vars

\* resampling with the export of the result
NextExport == NextResample \/ handleExport

SpecExport == InitResample /\ [][NextExport]_vars

\* C19: the input of every resampling run is the whole store: the ids of
\* the rows the conditions were evaluated against are the keys of the store,
\* also when the store holds more rows than the sample cap.
C19_ResampleReadsWholeStore ==
  rsRun # <<>> => IdsOf(rsRun[1].input) = DOMAIN store

\* the sum of the target counts of the conditions; with claimedOnly, of the
\* conditions whose group is not empty
RECURSIVE TargetSum(_, _, _)
TargetSum(conds, groups, claimedOnly) ==
  IF conds = <<>> THEN 0
  ELSE (IF claimedOnly /\ Head(groups) = <<>> THEN 0
        ELSE parseInt(Head(conds).maxCount).n)
       + TargetSum(Tail(conds), Tail(groups), claimedOnly)

\* the rows of the run's input that are in no condition's group
UnclaimedCount(run) ==
  Cardinality({j \in 1 .. Len(run.input) :
                 \A k \in 1 .. Len(run.groups) :
                   run.input[j].id \notin IdsOf(run.groups[k])})

\* C20: the size of the resampled output is the sum of the conditions'
\* target counts plus the number of rows of the run's input no condition
\* claimed; a condition that claims no row is taken to add nothing (section
\* 4.6 of the specification: k == 0, the condition contributes nothing).
C20_SizeIsClaimedTargetsPlusUnclaimed ==
  rsRun # <<>> =>
    BagCardinality(resampledData)
      = TargetSum(rsRun[1].conds, rsRun[1].groups, TRUE) + UnclaimedCount(rsRun[1])

\* the rows of the run's input that are in no condition's group
UnclaimedRows(run) ==
  {r \in RowSet(run.input) :
     \A k \in 1 .. Len(run.groups) : r.id \notin IdsOf(run.groups[k])}

\* C21: in every resampling output each row of the run's input that no
\* condition claimed occurs exactly once, with the attributes it has in the
\* input; the output is the bag of the shuffled array, so this holds of
\* every order the final shuffle produces.
C21_UnclaimedRowsExactlyOnce ==
  rsRun # <<>> =>
    \A r \in UnclaimedRows(rsRun[1]) :
      /\ CopiesIn(r, resampledData) = 1
      /\ \A o \in BagToSet(resampledData) : o.id = r.id => o = r

\* a run that left a row unclaimed while another row was drawn twice
C21_Witness ==
  /\ rsRun # <<>>
  /\ UnclaimedRows(rsRun[1]) # {}
  /\ \E o \in BagToSet(resampledData) : CopiesIn(o, resampledData) = 2

\* the count of the condition is not a number or is not positive
BadCount(c) ==
  parseInt(c.maxCount).kind = "NaN" \/ parseInt(c.maxCount).n <= 0

\* C22: a resampling request in which a condition (with a keyword given)
\* has a target count that is not a number or is <= 0 is refused: the
\* published result and the last run stay as they were.
C22_InvalidTargetRefused ==
  [][(handleResample
        /\ \E k \in 1 .. Len(rsConditions) :
             Trim(rsConditions[k].keyword) # <<>> /\ BadCount(rsConditions[k]))
     => UNCHANGED <<resampledData, rsRun>>]_vars

\* C23: every export of a resampled row set is a file whose columns are the
\* columns of the imported file in their order, each row serialized with
\* its cells in those columns; label_word_count is not among them.
C23_ExportUsesOriginalColumns ==
  exportOut # NoExport =>
    /\ exportOut[1] # TypeError
    /\ exportOut[1].columns = FileColumns

\* C25: in a resampling run a row of the input is in the group of a
\* condition exactly when that condition is the first, in the given order,
\* whose keyword word-matches the row's text in the condition's column; no
\* row id is in the groups of two conditions.
C25_FirstMatchWins ==
  rsRun # <<>> =>
    /\ \A k \in 1 .. Len(rsRun[1].conds) :
         \A r \in RowSet(rsRun[1].input) :
           r \in RowSet(rsRun[1].groups[k])
             <=> /\ RowMatches(r, rsRun[1].conds[k])
                 /\ \A j \in 1 .. k - 1 : ~RowMatches(r, rsRun[1].conds[j])
    /\ \A j, k \in 1 .. Len(rsRun[1].groups) :
         j # k => IdsOf(rsRun[1].groups[j]) \cap IdsOf(rsRun[1].groups[k]) = {}

\* a run with a row that two conditions match, the later of which claimed
\* another row
C25_Witness ==
  /\ rsRun # <<>>
  /\ Len(rsRun[1].conds) = 2
  /\ \E r \in RowSet(rsRun[1].input) :
       RowMatches(r, rsRun[1].conds[1]) /\ RowMatches(r, rsRun[1].conds[2])
  /\ rsRun[1].groups[2] # <<>>

\* the number of rows of the output that are rows of the group
InstancesOf(rows, output) ==
  BagCardinality([r \in RowSet(rows) \cap BagToSet(output) |-> output[r]])

\* C26: for a condition whose group has k >= 1 rows and target t, the
\* output holds exactly t instances of rows of the group; with k > t no row
\* of the group occurs twice, with k <= t every row of the group occurs;
\* every row of the output is a row of a group or an unclaimed row.
C26_ExactlyTargetInstances ==
  rsRun # <<>> =>
    /\ \A k \in 1 .. Len(rsRun[1].conds) :
         LET rows == rsRun[1].groups[k]
             t == parseInt(rsRun[1].conds[k].maxCount).n
         IN  rows # <<>> =>
               /\ InstancesOf(rows, resampledData) = t
               /\ Len(rows) > t =>
                    \A r \in RowSet(rows) : CopiesIn(r, resampledData) <= 1
               /\ Len(rows) <= t =>
                    \A r \in RowSet(rows) : CopiesIn(r, resampledData) >= 1
    /\ \A o \in BagToSet(resampledData) :
         \/ o \in UnclaimedRows(rsRun[1])
         \/ \E k \in 1 .. Len(rsRun[1].groups) : o \in RowSet(rsRun[1].groups[k])

(***************************************************************************)
(* Reads while imports run.  Once a first file is loaded the user can      *)
(* apply a filter while the next import clears and repopulates the store:  *)
(* the scan of filterData is served between two write transactions, as is  *)
(* the cursor read of handleDataLoaded.  The rows of the files hold the     *)
(* numeric columns file and line; they hold up to MaxScanRecords records.  *)
(***************************************************************************)
NextScan ==
  \/ \E i \in Imports : HandleFileChange(i, FileOf(i))
  \/ ClearSuccess
  \/ \E i \in Imports, id \in Ids \cup {NoId} :
       Step(i, id) /\ rowCount'[i] <= MaxScanRecords
  \/ \E i \in Imports, k \in 1 .. MaxRecords : StartWrite(i, k)
  \/ \E i \in Imports, k \in 1 .. MaxRecords : TimerWriteBatch(i, k)
  \/ PutSuccess
  \/ PutError
  \/ \E k \in DOMAIN txQueue : TxComplete(k)
  \/ \E i \in Imports, k \in 1 .. MaxRecords : ThenWritten(i, k)
  \/ \E i \in Imports : Complete(i)
  \/ \E i \in Imports : AwaitQueue(i)
  \/ \E i \in Imports : AwaitFinal(i)
  \/ \E i \in Imports : LoadedTimer(i)
  \/ CursorSuccess
  \/ SampleLoaded
  \/ \E i \in Imports : ParseError(i)
  \/ handleAddNumericCondition("line", <<"0">>, <<"9">>)
  \/ handleApplyFilter
  \/ \E n \in 1 .. MaxTx : FilterResolved(n)

SpecScan == Init /\ [][NextScan]_vars

\* C24: the rows a read returns were all written after the same number of
\* clear() calls: no result of a filter scan or of a cursor read holds a row
\* written before the clear of an import together with a row written after
\* it.
C24_ReadsNeverMixGenerations ==
  [][/\ (\E n \in DOMAIN scans : FilterResolved(n)) =>
          \A j, k \in 1 .. Len(filteredData') :
            stamp[filteredData'[j].id] = stamp[filteredData'[k].id]
     /\ (CursorSuccess /\ rdState' = "resolved") =>
          \A j, k \in 1 .. Len(rdResults') :
            stamp[rdResults'[j].id] = stamp[rdResults'[k].id]]_vars

\* a filter applied while the second import was running returned rows, all
\* of them written after that import's clear, the first import having stored
\* rows before it
C24_Witness ==
  /\ lastPublish.by = "scan"
  /\ started = 2
  /\ isProcessing
  /\ accepted[1] > 0
  /\ filteredData # <<>>
  /\ \A j \in 1 .. Len(filteredData) :
       filteredData[j].id \in DOMAIN stamp /\ stamp[filteredData[j].id] = 2

\* C27: during an ingest the in-memory batch never holds more rows than
\* its capacity BATCH_SIZE, also while an earlier write is outstanding.
C27_BatchWithinCapacity ==
  \A i \in Imports : Len(batch[i]) <= BATCH_SIZE

(***************************************************************************)
(* Progress of an ingest.  The event loop runs every pending callback: a   *)
(* settled promise's reaction, a due timer, the events of the oldest       *)
(* transaction.  Whether a put succeeds or fails, and when the user or the *)
(* file reader act, is left open.  The files hold up to MaxLiveRecords     *)
(* records.                                                                *)
(***************************************************************************)
Fairness ==
  /\ WF_vars(ClearSuccess)
  /\ WF_vars(PutSuccess \/ PutError)
  /\ \A i \in Imports :
       /\ WF_vars(\E k \in 1 .. MaxRecords : StartWrite(i, k))
       /\ WF_vars(\E k \in 1 .. MaxRecords : TimerWriteBatch(i, k))
       /\ WF_vars(\E k \in 1 .. MaxRecords : ThenWritten(i, k))
       /\ WF_vars(AwaitQueue(i))
       /\ WF_vars(AwaitFinal(i))
       /\ WF_vars(LoadedTimer(i))
  /\ WF_vars(\E k \in DOMAIN txQueue : TxComplete(k))

NextLive ==
  \/ \E i \in Imports : HandleFileChange(i, FileOf(i))
  \/ ClearSuccess
  \/ \E i \in Imports, id \in Ids \cup {NoId} :
       Step(i, id) /\ rowCount'[i] <= MaxLiveRecords
  \/ \E i \in Imports, k \in 1 .. MaxRecords : StartWrite(i, k)
  \/ \E i \in Imports, k \in 1 .. MaxRecords : TimerWriteBatch(i, k)
  \/ PutSuccess
  \/ PutError
  \/ \E k \in DOMAIN txQueue : TxComplete(k)
  \/ \E i \in Imports, k \in 1 .. MaxRecords : ThenWritten(i, k)
  \/ \E i \in Imports : Complete(i)
  \/ \E i \in Imports : AwaitQueue(i)
  \/ \E i \in Imports : AwaitFinal(i)
  \/ \E i \in Imports : LoadedTimer(i)
  \/ CursorSuccess
  \/ SampleLoaded
  \/ \E i \in Imports : ParseError(i)

SpecLive == Init /\ [][NextLive]_vars /\ Fairness

\* import i has signalled completion: progress 100 was set and onDataLoaded
\* was called
Signalled(i) == loaded[i] # <<>> /\ pc[i] = "done"

\* C28: once the stream of an ingest has ended (the complete callback has
\* run), the ingest eventually signals completion, unless one of its
\* writes fails.
C28_IngestEventuallyCompletes ==
  \A i \in Imports :
    (pc[i] = "awaitQueue") ~> (Signalled(i) \/ WriteFailed(i))

\* the first ingest signalled completion after a stream that ended while
\* its first batch write was in flight and left a last batch to write
C28_Witness ==
  /\ Signalled(1)
  /\ Len(calls[1]) >= 2
  /\ ~WriteFailed(1)

\* C29: after the user cleared all conditions while a scan was in flight,
\* the published result is empty and stays empty: the scan, which no new
\* Apply can overtake, does not publish its matches when it resolves.
C29_ClearedResultStaysEmpty ==
  [][(lastPublish.by = "clear" /\ lastPublish.n > 0) => filteredData' = <<>>]_vars


(***************************************************************************)
(* C30.  For every non-empty list of numeric values the computed summary   *)
(* is ordered: min <= Q1 <= median <= Q3 <= max.  The median is a quotient *)
(* (num / den) * 10^exp with den > 0, or an infinity.                      *)
(***************************************************************************)
\* the number v is at most the quotient or infinity q
AtMost(v, q) ==
  IF IsKindValue(q) THEN q.kind = "Infinity"
  ELSE ~NumberLess(q.num, q.exp, v.num * q.den, v.exp)

\* the quotient or infinity q is at most the number v
AtLeast(v, q) ==
  IF IsKindValue(q) THEN q.kind = "-Infinity"
  ELSE ~NumberLess(v.num * q.den, v.exp, q.num, q.exp)

\* C30: for every non-empty list of numbers the computed statistics satisfy
\* min <= Q1 <= median <= Q3 <= max.
C30_QuartilesOrdered ==
  (stOut # <<>> /\ stValues # <<>> /\ AllNumbers(stValues)) =>
    LET s == stOut[1] IN
      /\ ~NumberLess(s.q1.num, s.q1.exp, s.min.num, s.min.exp)
      /\ AtMost(s.q1, s.median)
      /\ AtLeast(s.q3, s.median)
      /\ ~NumberLess(s.max.num, s.max.exp, s.q3.num, s.q3.exp)

====
